---- MODULE Spec2Model ----
(***************************************************************************)
(* Codebase-copilot: the RAG core (vector index, retriever, generator      *)
(* citations) and the indexing pipeline controller, as state machines.     *)
(*                                                                         *)
(* Spec       the indexing pipeline (index_repository_task) interleaved    *)
(*            with queries (chat / retrieve_relevant_chunks) at the        *)
(*            granularity of file-system and database operations.  The     *)
(*            index files and the SQLite store are shared between          *)
(*            processes (the API server, eval/run.py), so a query may      *)
(*            observe every intermediate persisted state of a run.         *)
(* FairSpec   Spec with weak fairness on the steps of an indexing run.     *)
(* SpecIndex  build_faiss_index followed by search_index, sequentially.    *)
(* SpecCite   extract_citations applied to answer texts and chunk lists.   *)
(***************************************************************************)
EXTENDS Integers, Sequences, FiniteSets, TLC

VARIABLES
    repos,        \* repositories table: repo id -> row
    indexFile,    \* <repo>.faiss: file state and stored vectors
    mappingFile,  \* <repo>_mapping.pkl: file state and chunk id list
    db,           \* chunks table: set of rows
    task,         \* index_repository_task invocations and their position
    runs,         \* number of indexing runs started (fresh uuid source)
    qry,          \* the in-flight query and its position
    lastGood,     \* history: what was persisted when a run last set ready
    ipairs,       \* SpecIndex: the (chunk id, vector) pairs handed to Build
    ibuilt,       \* SpecIndex: the built index and mapping
    isearch,      \* SpecIndex: the last search and its result
    icall,        \* SpecIndex: the last Build/Search call and its outcome
    citeIn,       \* SpecCite: answer text and chunk list
    citeOut,      \* SpecCite: result of extract_citations
    genOut,       \* SpecGen: the last generator call, its inputs and result
    parseIn,      \* SpecChunk: the lines of a file
    parseOut,     \* SpecChunk: result of chunk_content
    embIn,        \* SpecEmbed: chunk count, backend dimension, failing batches
    embOut,       \* SpecEmbed: result of create_embeddings
    saveTxn,      \* SpecSave: the save_chunks call and its open transaction
    saveRead,     \* SpecSave: what a reader on another connection last saw
    rerankIn,     \* SpecRerank: query text and chunk list
    rerankOut,    \* SpecRerank: results of two rerank_chunks calls
    rateCounts,   \* SpecRate: request_counts, client -> recorded request times
    rateNow,      \* SpecRate: the clock read by datetime.now(), in seconds
    rateLog       \* SpecRate: history of forwarded requests, last response

pipeVars == <<repos, indexFile, mappingFile, db, task, runs, qry, lastGood>>
indexVars == <<ipairs, ibuilt, isearch, icall>>
rateVars == <<rateCounts, rateNow, rateLog>>
auxVars == <<saveTxn, saveRead, rerankIn, rerankOut, rateVars>>
citeVars == <<citeIn, citeOut, genOut, parseIn, parseOut, embIn, embOut, auxVars>>
vars == <<repos, indexFile, mappingFile, db, task, runs, qry, lastGood,
          ipairs, ibuilt, isearch, icall, citeIn, citeOut, genOut,
          parseIn, parseOut, embIn, embOut, saveTxn, saveRead,
          rerankIn, rerankOut, rateCounts, rateNow, rateLog>>

(***************************************************************************)
(* Bounds                                                                  *)
(***************************************************************************)
MaxRuns == 2
MaxChunks == 2
MaxTopK == 1

Repos == {"r1", "r2"}
Tasks == {"t1", "t2"}

\* Embedding vectors of the pipeline: one dimension, components exactly
\* representable in float32.
Vectors == {<<0>>, <<1>>}

\* Word sets of queries; ContentWords gives the word set of a chunk's text.
QueryWords == {{}, {"token"}}

ContentWords(pos) == IF pos % 2 = 1 THEN {"auth"} ELSE {"auth", "token"}

\* The embedding model applied to a chunk text with these words.
EmbeddingOf(words) == IF "token" \in words THEN <<1>> ELSE <<0>>

(***************************************************************************)
(* Helpers                                                                 *)
(***************************************************************************)
Min(a, b) == IF a < b THEN a ELSE b

Range(s) == {s[i] : i \in 1..Len(s)}

RECURSIVE SumSq(_, _, _)
SumSq(u, v, i) ==
    IF i > Len(u) THEN 0
    ELSE (u[i] - v[i]) * (u[i] - v[i]) + SumSq(u, v, i + 1)

\* Squared Euclidean distance of IndexFlatL2.
L2(u, v) == SumSq(u, v, 1)

NoFile == [state |-> "none", data |-> <<>>]

PartialFile == [state |-> "partial", data |-> <<>>]

File(data) == [state |-> "ok", data |-> data]

(***************************************************************************)
(* Vector index: build_faiss_index / search_index as functions of the      *)
(* file contents.  A stored vector carries the id of the chunk it was      *)
(* computed from (a history field: FAISS stores the vector only).          *)
(***************************************************************************)

\* The validation without the check that the embeddings form a matrix.
BuildValidNonEmpty(chunks) == chunks # <<>>

\* build_faiss_index accepts the chunk list: non-empty, and np.array yields
\* a rectangular float32 matrix (all vectors share the first one's length).
BuildValid(chunks) ==
    /\ chunks # <<>>
    /\ \A i \in 1..Len(chunks) : Len(chunks[i].vec) = Len(chunks[1].vec)

\* index.add(embeddings): position i holds the vector of chunks[i].
IndexOf(chunks) ==
    [i \in 1..Len(chunks) |-> [id |-> chunks[i].id, vec |-> chunks[i].vec]]

MappingReversed(chunks) ==
    [i \in 1..Len(chunks) |-> chunks[Len(chunks) + 1 - i].id]

\* chunk_ids = [chunk["chunk_id"] for chunk in chunks]
MappingOf(chunks) ==
    [i \in 1..Len(chunks) |-> chunks[i].id]

\* index.search(query_vector, top_k) of IndexFlatL2: the labels (0-based
\* positions) of the min(k, n) nearest vectors by non-decreasing distance,
\* then -1 for every neighbour that does not exist.  The order among equal
\* distances is the library's: every order is allowed.
FaissSearch(index, q, k) ==
    LET n == Len(index)
        m == Min(k, n)
        d(p) == L2(index[p + 1].vec, q)
        hits == {s \in [1..m -> 0..(n - 1)] :
                    /\ \A i, j \in 1..m : i # j => s[i] # s[j]
                    /\ \A i \in 1..(m - 1) : d(s[i]) <= d(s[i + 1])
                    /\ \A p \in 0..(n - 1) :
                          (\A i \in 1..m : s[i] # p)
                              => \A i \in 1..m : d(s[i]) <= d(p)}
    IN  {h \o [i \in 1..(k - m) |-> -1] : h \in hits}

\* Python list indexing: a negative index counts from the end.
PyIndex(list, idx) ==
    IF idx >= 0 THEN list[idx + 1] ELSE list[Len(list) + idx + 1]

\* [chunk_ids[idx] for idx in indices[0] if idx < len(chunk_ids)]
RECURSIVE ResultChunkIds(_, _)
ResultChunkIds(chunk_ids, labels) ==
    IF labels = <<>> THEN <<>>
    ELSE LET idx == Head(labels)
             rest == ResultChunkIds(chunk_ids, Tail(labels))
         IN  IF idx < Len(chunk_ids)
             THEN <<PyIndex(chunk_ids, idx)>> \o rest
             ELSE rest

(***************************************************************************)
(* SpecIndex: Build then Search on one repository, no interleaving.        *)
(***************************************************************************)
MaxPairs == 3
MaxK == 4

IndexVectors == {<<0, 0>>, <<1, 0>>, <<0, 2>>, <<1>>}

PairLists ==
    UNION {[1..n -> IndexVectors] : n \in 0..MaxPairs}

\* Pair lists of a second Build call on the repository.
MaxRebuildPairs == 2

RebuildLists == {vs \in PairLists : Len(vs) <= MaxRebuildPairs}

\* The i-th pair of a Build call: chunk id i, vector vs[i].
PairsOf(vs) == [i \in 1..Len(vs) |-> [id |-> i, vec |-> vs[i]]]

NoBuild == [state |-> "none", index |-> <<>>, mapping |-> <<>>]

NoSearch == [state |-> "none", q |-> <<>>, k |-> 0, labels |-> <<>>, ids |-> <<>>]

\* A call of the vector index: the operation, the pair list of a Build, how
\* it ended, the chunk ids it returned and the persisted files before it.
NoCall ==
    [op |-> "none", pairs |-> <<>>, outcome |-> "none", result |-> <<>>,
     before |-> NoBuild]

Call(op, pairs, outcome, result) ==
    [op |-> op, pairs |-> pairs, outcome |-> outcome, result |-> result,
     before |-> ibuilt]

(***************************************************************************)
(* Durable store (storage/db.py)                                           *)
(***************************************************************************)
NewRow == [status |-> "queued", error |-> "", indexed |-> FALSE, chunk_count |-> 0]

\* update_repo_status: error_message is overwritten on every call (NULL when
\* none is passed); indexed_at is written only with READY.
UpdateRepoStatus(row, status, msg) ==
    [row EXCEPT !.status = status,
                !.error = msg,
                !.indexed = IF status = "ready" THEN TRUE ELSE @]

DbRow(r, c) == [id |-> c.id, repo |-> r, words |-> c.words]

RepoChunks(r) == {row \in db : row.repo = r}

\* save_chunks deleting the rows of every repository.
SaveChunksDeleteAll(r, chunks) ==
    {DbRow(r, chunks[i]) : i \in 1..Len(chunks)}

\* save_chunks, committed: DELETE the repository's rows, INSERT the new ones.
SaveChunks(r, chunks) ==
    (db \ RepoChunks(r)) \cup {DbRow(r, chunks[i]) : i \in 1..Len(chunks)}

\* get_chunk_by_id: the row with that chunk_id (primary key), or none.
GetChunkById(id) == {row \in db : row.id = id}

(***************************************************************************)
(* Retriever (rag/retriever.py)                                            *)
(***************************************************************************)
\* calculate_keyword_score: |query words & content words| / |query words|,
\* 0.0 without query words; kept as an integer percentage (one call compares
\* scores of one query, so the order of the quotients is the order of these).
KeywordScore(qw, cw) ==
    IF qw = {} THEN 0
    ELSE (Cardinality(qw \cap cw) * 100) \div Cardinality(qw)

\* A descending sort that is not stable: a chunk goes in front of the
\* chunks with its own score.
RECURSIVE InsertByScoreUnstable(_, _, _)
InsertByScoreUnstable(qw, c, sorted) ==
    IF sorted = <<>> THEN <<c>>
    ELSE IF KeywordScore(qw, Head(sorted).words) > KeywordScore(qw, c.words)
         THEN <<Head(sorted)>> \o InsertByScoreUnstable(qw, c, Tail(sorted))
         ELSE <<c>> \o sorted

\* sorted(..., reverse=True) is stable: insert each chunk after the chunks
\* whose score is at least its own.
RECURSIVE InsertByScore(_, _, _)
InsertByScore(qw, c, sorted) ==
    IF sorted = <<>> THEN <<c>>
    ELSE IF KeywordScore(qw, Head(sorted).words) >= KeywordScore(qw, c.words)
         THEN <<Head(sorted)>> \o InsertByScore(qw, c, Tail(sorted))
         ELSE <<c>> \o sorted

RECURSIVE RerankFrom(_, _, _)
RerankFrom(qw, chunks, acc) ==
    IF chunks = <<>> THEN acc
    ELSE RerankFrom(qw, Tail(chunks), InsertByScore(qw, Head(chunks), acc))

RerankChunks(qw, chunks) == RerankFrom(qw, chunks, <<>>)

\* The number of candidates without the doubling for re-ranking.
RetrieveKNoDoubling(topK, rerank) == topK

\* retrieve_k = top_k * 2 if use_reranking else top_k
RetrieveK(topK, rerank) == IF rerank THEN topK * 2 ELSE topK

FinalChunksNoCut(qw, chunks, topK, rerank) ==
    IF rerank /\ Len(chunks) > topK THEN RerankChunks(qw, chunks) ELSE chunks

\* if use_reranking and len(chunks) > top_k: rerank, then chunks[:top_k]
FinalChunks(qw, chunks, topK, rerank) ==
    IF rerank /\ Len(chunks) > topK
    THEN SubSeq(RerankChunks(qw, chunks), 1, topK)
    ELSE chunks

(***************************************************************************)
(* Indexing pipeline (api/repos.py index_repository_task)                  *)
(***************************************************************************)
IdleTask ==
    [pc |-> "idle", repo |-> "none", run |-> 0, chunks |-> <<>>,
     stages |-> <<>>, outcome |-> "none", err |-> ""]

IdleQuery ==
    [pc |-> "idle", repo |-> "none", topK |-> 0, rerank |-> FALSE,
     checked |-> FALSE, index |-> <<>>, mapping |-> <<>>, ids |-> <<>>,
     i |-> 0, chunks |-> <<>>, result |-> <<>>, outcome |-> "none",
     k |-> 0, qw |-> {}]

NoSnapshot == [set |-> FALSE, index |-> NoFile, mapping |-> NoFile, chunks |-> {}]

Snapshot(r) ==
    [set |-> TRUE, index |-> indexFile[r], mapping |-> mappingFile[r],
     chunks |-> {row.id : row \in RepoChunks(r)}]

PipeInit ==
    /\ repos = [r \in Repos |-> NewRow]
    /\ indexFile = [r \in Repos |-> NoFile]
    /\ mappingFile = [r \in Repos |-> NoFile]
    /\ db = {}
    /\ task = [t \in Tasks |-> IdleTask]
    /\ runs = 0
    /\ qry = IdleQuery
    /\ lastGood = [r \in Repos |-> NoSnapshot]

IndexIdle ==
    /\ ipairs = <<>>
    /\ ibuilt = NoBuild
    /\ isearch = NoSearch
    /\ icall = NoCall

ParseIdle ==
    /\ parseIn = <<>>
    /\ parseOut = [state |-> "none", chunks |-> <<>>]

EmbedIdle ==
    /\ embIn = [n |-> 0, dim |-> 0, fails |-> {}]
    /\ embOut = [state |-> "none", embeddings |-> <<>>]

NoTxn ==
    [pc |-> "idle", repo |-> "r1", chunks |-> <<>>, i |-> 0, view |-> {},
     count |-> 0, result |-> "none", prev |-> {}, calls |-> 0]

NoRead == [seen |-> FALSE, repo |-> "r1", rows |-> {}]

SaveIdle ==
    /\ saveTxn = NoTxn
    /\ saveRead = NoRead

RerankIdle ==
    /\ rerankIn = [query |-> <<>>, chunks |-> <<>>]
    /\ rerankOut = [state |-> "none", first |-> <<>>, second |-> <<>>]

Clients == {"c1", "c2"}

\* request_counts: defaultdict(list), no request seen yet.
RateIdle ==
    /\ rateCounts = [c \in Clients |-> <<>>]
    /\ rateNow = 0
    /\ rateLog = [forwarded |-> [c \in Clients |-> <<>>],
                  last |-> [client |-> "none", code |-> 0], n |-> 0,
                  steps |-> 0]

AuxIdle == SaveIdle /\ RerankIdle /\ RateIdle

GenIdle ==
    /\ citeIn = [answer |-> <<>>, chunks |-> <<>>]
    /\ citeOut = [state |-> "none", citations |-> <<>>]
    /\ genOut = [op |-> "none"]

CiteIdle == GenIdle /\ ParseIdle /\ EmbedIdle /\ AuxIdle

Advance(t, pc, stage) ==
    [task EXCEPT ![t].pc = pc, ![t].stages = Append(@, stage)]

\* background_tasks.add_task(index_repository_task, repo_id, ...)
StartRun(t, r) ==
    /\ task[t].pc \in {"idle", "done"}
    /\ runs < MaxRuns
    /\ runs' = runs + 1
    /\ task' = [task EXCEPT ![t] = [IdleTask EXCEPT !.pc = "start", !.repo = r,
                                                    !.run = runs + 1]]
    /\ UNCHANGED <<repos, indexFile, mappingFile, db, qry, lastGood, indexVars, citeVars>>

\* await update_repo_status(repo_id, RepoStatus.INDEXING)
SetIndexing(t) ==
    /\ task[t].pc = "start"
    /\ repos' = [repos EXCEPT ![task[t].repo] = UpdateRepoStatus(@, "indexing", "")]
    /\ task' = Advance(t, "clone", "indexing")
    /\ UNCHANGED <<indexFile, mappingFile, db, runs, qry, lastGood, indexVars, citeVars>>

\* repo_path = await clone_repository(...)
Clone(t) ==
    /\ task[t].pc = "clone"
    /\ task' = Advance(t, "parse", "clone")
    /\ UNCHANGED <<repos, indexFile, mappingFile, db, runs, qry, lastGood, indexVars, citeVars>>

\* The parse stage without the check for an empty chunk list: a parse result
\* of no chunk is handed on to the embedding stage.
ParseWithoutEmptyCheck(t, n) ==
    /\ task[t].pc = "parse"
    /\ task' = [Advance(t, "embed", "parse") EXCEPT
                   ![t].chunks = [i \in 1..(n - 1) |->
                       [id |-> <<task[t].run, i>>, words |-> ContentWords(i),
                        vec |-> <<>>]]]
    /\ UNCHANGED <<repos, indexFile, mappingFile, db, runs, qry, lastGood, indexVars, citeVars>>

\* chunks = await parse_repository(...), at least one chunk; every chunk gets
\* a fresh uuid4 (here: run number and position).
Parse(t, n) ==
    /\ task[t].pc = "parse"
    /\ task' = [Advance(t, "embed", "parse") EXCEPT
                   ![t].chunks = [i \in 1..n |->
                       [id |-> <<task[t].run, i>>, words |-> ContentWords(i),
                        vec |-> <<>>]]]
    /\ UNCHANGED <<repos, indexFile, mappingFile, db, runs, qry, lastGood, indexVars, citeVars>>

\* chunks_with_embeddings = await create_embeddings(chunks): the embedding
\* model is a function of the chunk text.
Embed(t) ==
    /\ task[t].pc = "embed"
    /\ task' = [Advance(t, "build", "embed") EXCEPT
                   ![t].chunks = [i \in 1..Len(task[t].chunks) |->
                       [task[t].chunks[i] EXCEPT !.vec = EmbeddingOf(task[t].chunks[i].words)]]]
    /\ UNCHANGED <<repos, indexFile, mappingFile, db, runs, qry, lastGood, indexVars, citeVars>>

\* build_faiss_index up to faiss.write_index opening the index file.
BuildBeginIndex(t) ==
    /\ task[t].pc = "build"
    /\ BuildValid(task[t].chunks)
    /\ indexFile' = [indexFile EXCEPT ![task[t].repo] = PartialFile]
    /\ task' = [task EXCEPT ![t].pc = "windex"]
    /\ UNCHANGED <<repos, mappingFile, db, runs, qry, lastGood, indexVars, citeVars>>

\* faiss.write_index completes.
BuildEndIndex(t) ==
    /\ task[t].pc = "windex"
    /\ indexFile' = [indexFile EXCEPT ![task[t].repo] = File(IndexOf(task[t].chunks))]
    /\ task' = [task EXCEPT ![t].pc = "wmap0"]
    /\ UNCHANGED <<repos, mappingFile, db, runs, qry, lastGood, indexVars, citeVars>>

\* open(mapping_path, "wb") truncates the mapping file.
BuildBeginMapping(t) ==
    /\ task[t].pc = "wmap0"
    /\ mappingFile' = [mappingFile EXCEPT ![task[t].repo] = PartialFile]
    /\ task' = [task EXCEPT ![t].pc = "wmap"]
    /\ UNCHANGED <<repos, indexFile, db, runs, qry, lastGood, indexVars, citeVars>>

\* pickle.dump(chunk_ids, f) and close.
BuildEndMapping(t) ==
    /\ task[t].pc = "wmap"
    /\ mappingFile' = [mappingFile EXCEPT ![task[t].repo] = File(MappingOf(task[t].chunks))]
    /\ task' = Advance(t, "save", "build")
    /\ UNCHANGED <<repos, indexFile, db, runs, qry, lastGood, indexVars, citeVars>>

\* await save_chunks(repo_id, chunks_with_embeddings): one transaction.
Save(t) ==
    /\ task[t].pc = "save"
    /\ db' = SaveChunks(task[t].repo, task[t].chunks)
    /\ repos' = [repos EXCEPT ![task[t].repo].chunk_count = Len(task[t].chunks)]
    /\ task' = Advance(t, "ready", "save")
    /\ UNCHANGED <<indexFile, mappingFile, runs, qry, lastGood, indexVars, citeVars>>

\* await update_repo_status(repo_id, RepoStatus.READY)
SetReady(t) ==
    /\ task[t].pc = "ready"
    /\ repos' = [repos EXCEPT ![task[t].repo] = UpdateRepoStatus(@, "ready", "")]
    /\ task' = [task EXCEPT ![t].pc = "done", ![t].outcome = "ready"]
    /\ lastGood' = [lastGood EXCEPT ![task[t].repo] = Snapshot(task[t].repo)]
    /\ UNCHANGED <<indexFile, mappingFile, db, runs, qry, indexVars, citeVars>>

\* The exception a stage may raise at each position of the run.
StageError(pc) ==
    CASE pc = "clone" -> "Failed to clone repository"
      [] pc = "parse" -> "No code chunks extracted from repository"
      [] pc = "embed" -> "embedding model unavailable"
      [] pc = "windex" -> "index write failed"
      [] pc = "wmap" -> "mapping write failed"
      [] pc = "save" -> "database error"

StatusAfterErrorNoMessage(row, msg) == UpdateRepoStatus(row, "error", "")

\* except Exception as e: await update_repo_status(repo_id, ERROR, str(e))
StatusAfterError(row, msg) == UpdateRepoStatus(row, "error", msg)

\* A stage raises: clone fails, parse yields no chunk, the embedding model
\* cannot be loaded, a file write fails (leaving the truncated file), or the
\* save transaction fails (rolled back).
StageFail(t) ==
    /\ task[t].pc \in {"clone", "parse", "embed", "windex", "wmap", "save"}
    /\ repos' = [repos EXCEPT ![task[t].repo] =
                    StatusAfterError(@, StageError(task[t].pc))]
    /\ task' = [task EXCEPT ![t].pc = "done", ![t].outcome = "error",
                            ![t].err = StageError(task[t].pc)]
    /\ UNCHANGED <<indexFile, mappingFile, db, runs, qry, lastGood, indexVars, citeVars>>

(***************************************************************************)
(* Queries: api/chat.py chat and rag/retriever.py retrieve_relevant_chunks *)
(***************************************************************************)
QueryStart(r, k, rerank, checked) ==
    [IdleQuery EXCEPT !.pc = "loadidx", !.repo = r, !.topK = k,
                      !.rerank = rerank, !.checked = checked,
                      !.k = RetrieveK(k, rerank)]

QueryError == [qry EXCEPT !.pc = "done", !.outcome = "error"]

\* chat: the repository must be ready; retrieval with the default
\* use_reranking=True (eval/run.py makes the same check, then the same call).
Chat(r, k) ==
    /\ qry.pc \in {"idle", "done"}
    /\ repos[r].status = "ready"
    /\ qry' = QueryStart(r, k, TRUE, TRUE)
    /\ UNCHANGED <<repos, indexFile, mappingFile, db, task, runs, lastGood, indexVars, citeVars>>

\* retrieve_relevant_chunks called directly, with either use_reranking.
Retrieve(r, k, rerank) ==
    /\ qry.pc \in {"idle", "done"}
    /\ qry' = QueryStart(r, k, rerank, FALSE)
    /\ UNCHANGED <<repos, indexFile, mappingFile, db, task, runs, lastGood, indexVars, citeVars>>

\* search_index: both paths must exist; index = faiss.read_index(...)
LoadIndex ==
    /\ qry.pc = "loadidx"
    /\ qry' = IF \/ indexFile[qry.repo].state = "none"
                 \/ mappingFile[qry.repo].state = "none"
                 \/ indexFile[qry.repo].state = "partial"
              THEN QueryError
              ELSE [qry EXCEPT !.pc = "loadmap", !.index = indexFile[qry.repo].data]
    /\ UNCHANGED <<repos, indexFile, mappingFile, db, task, runs, lastGood, indexVars, citeVars>>

\* chunk_ids = pickle.load(f); index.search; the list of result chunk ids.
LoadMappingAndSearch(qv) ==
    /\ qry.pc = "loadmap"
    /\ \/ /\ mappingFile[qry.repo].state = "partial"
          /\ qry' = QueryError
       \/ /\ mappingFile[qry.repo].state = "ok"
          /\ \E labels \in FaissSearch(qry.index, qv, qry.k) :
                qry' = [qry EXCEPT
                          !.pc = "hydrate",
                          !.mapping = mappingFile[qry.repo].data,
                          !.ids = ResultChunkIds(mappingFile[qry.repo].data, labels),
                          !.i = 1]
    /\ UNCHANGED <<repos, indexFile, mappingFile, db, task, runs, lastGood, indexVars, citeVars>>

\* A hydration that raises for an id that does not resolve.
HydrateRaisesOnMissing ==
    /\ qry.pc = "hydrate"
    /\ qry.i <= Len(qry.ids)
    /\ LET found == GetChunkById(qry.ids[qry.i])
       IN  qry' = IF found = {} THEN QueryError
                  ELSE [qry EXCEPT !.i = @ + 1,
                                   !.chunks = Append(@, CHOOSE row \in found : TRUE)]
    /\ UNCHANGED <<repos, indexFile, mappingFile, db, task, runs, lastGood, indexVars, citeVars>>

\* chunk = await get_chunk_by_id(chunk_id); if chunk: chunks.append(chunk)
Hydrate ==
    /\ qry.pc = "hydrate"
    /\ qry.i <= Len(qry.ids)
    /\ LET found == GetChunkById(qry.ids[qry.i])
       IN  qry' = [qry EXCEPT
                     !.i = @ + 1,
                     !.chunks = IF found = {} THEN @
                                ELSE Append(@, CHOOSE row \in found : TRUE)]
    /\ UNCHANGED <<repos, indexFile, mappingFile, db, task, runs, lastGood, indexVars, citeVars>>

\* Re-rank and truncate; return chunks.
Finish(qw) ==
    /\ qry.pc = "hydrate"
    /\ qry.i > Len(qry.ids)
    /\ qry' = [qry EXCEPT
                 !.pc = "done", !.outcome = "ok", !.qw = qw,
                 !.result = FinalChunks(qw, qry.chunks, qry.topK, qry.rerank)]
    /\ UNCHANGED <<repos, indexFile, mappingFile, db, task, runs, lastGood, indexVars, citeVars>>

\* Spec: one indexer (runs of one repository follow each other) and one
\* query process on the same repository.
PipeNext ==
    \/ StartRun("t1", "r1")
    \/ SetIndexing("t1")
    \/ Clone("t1")
    \/ \E n \in 1..MaxChunks : Parse("t1", n)
    \/ Embed("t1")
    \/ BuildBeginIndex("t1")
    \/ BuildEndIndex("t1")
    \/ BuildBeginMapping("t1")
    \/ BuildEndMapping("t1")
    \/ Save("t1")
    \/ SetReady("t1")
    \/ StageFail("t1")
    \/ \E k \in 1..MaxTopK : Chat("r1", k)
    \/ \E k \in 1..MaxTopK, rerank \in BOOLEAN : Retrieve("r1", k, rerank)
    \/ LoadIndex
    \/ \E qv \in Vectors : LoadMappingAndSearch(qv)
    \/ Hydrate
    \/ \E qw \in QueryWords : Finish(qw)

Init == PipeInit /\ IndexIdle /\ CiteIdle

Next == PipeNext

Spec == Init /\ [][Next]_vars

\* A started run is driven until index_repository_task returns: every stage
\* either returns or raises.
RunStep(t) ==
    \/ SetIndexing(t)
    \/ Clone(t)
    \/ \E n \in 1..MaxChunks : Parse(t, n)
    \/ Embed(t)
    \/ BuildBeginIndex(t)
    \/ BuildEndIndex(t)
    \/ BuildBeginMapping(t)
    \/ BuildEndMapping(t)
    \/ Save(t)
    \/ SetReady(t)
    \/ StageFail(t)

FairSpec == Spec /\ WF_vars(RunStep("t1"))

(***************************************************************************)
(* SpecIso: two repositories indexed concurrently, each by its own run,    *)
(* with queries on the second one.                                         *)
(***************************************************************************)
IsoNext ==
    \/ \E t \in Tasks : StartRun(t, IF t = "t1" THEN "r1" ELSE "r2")
    \/ \E t \in Tasks : SetIndexing(t)
    \/ \E t \in Tasks : Clone(t)
    \/ \E t \in Tasks, n \in 1..MaxChunks : Parse(t, n)
    \/ \E t \in Tasks : Embed(t)
    \/ \E t \in Tasks : BuildBeginIndex(t)
    \/ \E t \in Tasks : BuildEndIndex(t)
    \/ \E t \in Tasks : BuildBeginMapping(t)
    \/ \E t \in Tasks : BuildEndMapping(t)
    \/ \E t \in Tasks : Save(t)
    \/ \E t \in Tasks : SetReady(t)
    \/ \E t \in Tasks : StageFail(t)
    \/ \E k \in 1..MaxTopK : Chat("r2", k)
    \/ LoadIndex
    \/ \E qv \in Vectors : LoadMappingAndSearch(qv)
    \/ Hydrate
    \/ \E qw \in QueryWords : Finish(qw)

InitIso == PipeInit /\ IndexIdle /\ CiteIdle

SpecIso == InitIso /\ [][IsoNext]_vars

(***************************************************************************)
(* SpecOverlap: two invocations of index_repository_task for the same      *)
(* repository (two server processes share the data directory and the       *)
(* database), their steps interleaved.                                     *)
(***************************************************************************)
OverlapNext ==
    \/ \E t \in Tasks : StartRun(t, "r1")
    \/ \E t \in Tasks : SetIndexing(t)
    \/ \E t \in Tasks : Clone(t)
    \/ \E t \in Tasks, n \in 1..MaxChunks : Parse(t, n)
    \/ \E t \in Tasks : Embed(t)
    \/ \E t \in Tasks : BuildBeginIndex(t)
    \/ \E t \in Tasks : BuildEndIndex(t)
    \/ \E t \in Tasks : BuildBeginMapping(t)
    \/ \E t \in Tasks : BuildEndMapping(t)
    \/ \E t \in Tasks : Save(t)
    \/ \E t \in Tasks : SetReady(t)
    \/ \E t \in Tasks : StageFail(t)

InitOverlap == PipeInit /\ IndexIdle /\ CiteIdle

SpecOverlap == InitOverlap /\ [][OverlapNext]_vars

(***************************************************************************)
(* SpecIndex actions                                                       *)
(***************************************************************************)
\* The files build_faiss_index leaves for a valid chunk list.
Built(chunks) ==
    [state |-> "ok", index |-> IndexOf(chunks), mapping |-> MappingOf(chunks)]

\* await build_faiss_index(repo_id, chunks): the first build of the
\* repository.  An empty list raises ValueError and a ragged embedding list
\* makes np.array raise, both before any file is written.
IBuild ==
    /\ ibuilt.state = "none"
    /\ icall.op = "none"
    /\ IF BuildValid(ipairs)
       THEN /\ ibuilt' = Built(ipairs)
            /\ icall' = Call("build", ipairs, "ok", <<>>)
       ELSE /\ ibuilt' = ibuilt
            /\ icall' = Call("build", ipairs, "error", <<>>)
    /\ UNCHANGED <<ipairs, isearch, pipeVars, citeVars>>

\* The first build raises in open/pickle.dump of the mapping file after
\* faiss.write_index has written the index file.
IBuildInterrupted ==
    /\ ibuilt.state = "none"
    /\ icall.op = "none"
    /\ BuildValid(ipairs)
    /\ ibuilt' = [state |-> "indexonly", index |-> IndexOf(ipairs),
                  mapping |-> <<>>]
    /\ icall' = Call("build", ipairs, "error", <<>>)
    /\ UNCHANGED <<ipairs, isearch, pipeVars, citeVars>>

\* build_faiss_index called again for the repository with another list,
\* right after the first build (one rebuild is explored).
IRebuild(vs) ==
    /\ ibuilt.state = "ok"
    /\ icall.op = "build"
    /\ icall.before.state = "none"
    /\ IF BuildValid(PairsOf(vs))
       THEN /\ ipairs' = PairsOf(vs)
            /\ ibuilt' = Built(PairsOf(vs))
            /\ isearch' = NoSearch
            /\ icall' = Call("build", PairsOf(vs), "ok", <<>>)
       ELSE /\ icall' = Call("build", PairsOf(vs), "error", <<>>)
            /\ UNCHANGED <<ipairs, ibuilt, isearch>>
    /\ UNCHANGED <<pipeVars, citeVars>>

\* await search_index(repo_id, query_embedding, top_k) on the built index;
\* FAISS rejects a query of another dimension.
ISearch(q, k) ==
    /\ ibuilt.state = "ok"
    /\ IF Len(q) # Len(ibuilt.index[1].vec)
       THEN /\ isearch' = [NoSearch EXCEPT !.state = "error", !.q = q, !.k = k]
            /\ icall' = Call("search", <<>>, "error", <<>>)
       ELSE \E labels \in FaissSearch(ibuilt.index, q, k) :
               /\ isearch' = [state |-> "ok", q |-> q, k |-> k,
                              labels |-> labels,
                              ids |-> ResultChunkIds(ibuilt.mapping, labels)]
               /\ icall' = Call("search", <<>>, "ok", isearch'.ids)
    /\ UNCHANGED <<ipairs, ibuilt, pipeVars, citeVars>>

\* search_index when the index file or the mapping file does not exist:
\* ValueError("Index not found ...")
ISearchMissing(q, k) ==
    /\ ibuilt.state # "ok"
    /\ isearch' = [NoSearch EXCEPT !.state = "error", !.q = q, !.k = k]
    /\ icall' = Call("search", <<>>, "error", <<>>)
    /\ UNCHANGED <<ipairs, ibuilt, pipeVars, citeVars>>

IndexInit ==
    /\ ipairs \in {PairsOf(vs) : vs \in PairLists}
    /\ ibuilt = NoBuild
    /\ isearch = NoSearch
    /\ icall = NoCall

IndexNext ==
    \/ IBuild
    \/ IBuildInterrupted
    \/ \E vs \in RebuildLists : IRebuild(vs)
    \/ \E q \in IndexVectors, k \in 1..MaxK : ISearch(q, k)
    \/ \E q \in IndexVectors, k \in 1..MaxK : ISearchMissing(q, k)

InitIndex == PipeInit /\ IndexInit /\ CiteIdle

SpecIndex == InitIndex /\ [][IndexNext]_vars

(***************************************************************************)
(* Generator: extract_citations (rag/generator.py)                         *)
(*                                                                         *)
(* An answer text is a sequence of tokens: OPEN is the literal "[Source ", *)
(* CLOSE is "]", a digit is one decimal digit, "x" is any other text.      *)
(***************************************************************************)
OPEN == "[Source "

CLOSE == "]"

Digits == {"0", "1", "2", "3", "4"}

DigitVal(d) ==
    CASE d = "0" -> 0 [] d = "1" -> 1 [] d = "2" -> 2 [] d = "3" -> 3 [] d = "4" -> 4

\* int(m) of a digit string.
RECURSIVE ToIntFrom(_, _)
ToIntFrom(ds, acc) ==
    IF ds = <<>> THEN acc
    ELSE ToIntFrom(Tail(ds), acc * 10 + DigitVal(Head(ds)))

ToInt(ds) == ToIntFrom(ds, 0)

\* The end of the digit run that starts at j (\d+ is greedy).
RECURSIVE DigitRunEnd(_, _)
DigitRunEnd(a, j) ==
    IF j <= Len(a) /\ a[j] \in Digits THEN DigitRunEnd(a, j + 1) ELSE j

\* re.findall(r"\[Source (\d+)\]", answer): the captured digit strings of
\* the non-overlapping matches, scanning from the left.
RECURSIVE FindAll(_, _)
FindAll(a, i) ==
    IF i > Len(a) THEN <<>>
    ELSE IF a[i] = OPEN
         THEN LET j == DigitRunEnd(a, i + 1)
              IN  IF j > i + 1 /\ j <= Len(a) /\ a[j] = CLOSE
                  THEN <<SubSeq(a, i + 1, j - 1)>> \o FindAll(a, j + 1)
                  ELSE FindAll(a, i + 1)
         ELSE FindAll(a, i + 1)

\* The set in descending order.
RECURSIVE SortedDescending(_)
SortedDescending(S) ==
    IF S = {} THEN <<>>
    ELSE LET m == CHOOSE x \in S : \A y \in S : x >= y
         IN  <<m>> \o SortedDescending(S \ {m})

\* sorted(unique_sources)
RECURSIVE SortedSeq(_)
SortedSeq(S) ==
    IF S = {} THEN <<>>
    ELSE LET m == CHOOSE x \in S : \A y \in S : x <= y
         IN  <<m>> \o SortedSeq(S \ {m})

SnippetLimit == 200

\* snippet = content[:200], plus "..." when the content is longer; a text is
\* represented by its length.
Citation(chunk) ==
    [file_path |-> chunk.file_path,
     start_line |-> chunk.start_line,
     end_line |-> chunk.end_line,
     snippet |-> [len |-> Min(chunk.clen, SnippetLimit),
                  ellipsis |-> chunk.clen > SnippetLimit]]

\* The range check with the lower bound off by one.
ValidSourceFromZero(n, len) == 0 <= n /\ n <= len /\ len > 0

\* if 1 <= source_num <= len(chunks)
ValidSource(n, len) == 1 <= n /\ n <= len

RECURSIVE CitationsOf(_, _)
CitationsOf(nums, chunks) ==
    IF nums = <<>> THEN <<>>
    ELSE IF ValidSource(Head(nums), Len(chunks))
         THEN <<Citation(PyIndex(chunks, Head(nums) - 1))>>
                  \o CitationsOf(Tail(nums), chunks)
         ELSE CitationsOf(Tail(nums), chunks)

ExtractCitations(answer, chunks) ==
    LET matches == FindAll(answer, 1)
        unique_sources == {ToInt(matches[i]) : i \in 1..Len(matches)}
    IN  CitationsOf(SortedSeq(unique_sources), chunks)

(***************************************************************************)
(* Generator: texts as sequences of literal pieces.  Besides the marker    *)
(* pieces above, a piece is one of the strings below; TokLen is its number *)
(* of characters, TokWords the number of whitespace-separated words in it, *)
(* LeadSpace / TrailSpace whether it starts / ends with whitespace.        *)
(***************************************************************************)
WORD == "word "

TENWORDS == "word word word word word word word word word word "

MIGHT == "might "

NOTSURE == "Not Sure "

AUTH == "Auth is in "

SEEALSO == ". See also "

DOT == "."

\* Pieces of build_local_fallback_answer, named by their wording: the
\* answer for no chunks, the disclaimer, the heading of an excerpt (with
\* the path a.py and the lines 1-8), the code fences around the excerpt
\* (newline, three backquotes, the language, newline) and the closing note.
NOTFOUND == "I could not find any relevant code ... or keyword."

HEADER == "LLM generation is disabled or unavailable ... instead: "

HEADING == "### path (lines a-b) "

FENCEOPEN == " fence language "

FENCECLOSE == " fence "

NOTE == "Note: To get richer explanations, ... set model=openai."

TokLen(t) ==
    CASE t = OPEN -> 8
      [] t = WORD -> 5
      [] t = TENWORDS -> 50
      [] t = MIGHT -> 6
      [] t = NOTSURE -> 9
      [] t = AUTH -> 11
      [] t = SEEALSO -> 11
      [] t = NOTFOUND -> 133
      [] t = HEADER -> 147
      [] t = HEADING -> 23
      [] t = FENCEOPEN -> 11
      [] t = FENCECLOSE -> 6
      [] t = NOTE -> 84
      [] OTHER -> 1

TokWords(t) ==
    CASE t = TENWORDS -> 10
      [] t = NOTSURE -> 2
      [] t = AUTH -> 3
      [] t = SEEALSO -> 3
      [] t = NOTFOUND -> 22
      [] t = HEADER -> 22
      [] t = HEADING -> 4
      [] t = NOTE -> 13
      [] OTHER -> 1

LeadSpace(t) == t \in {FENCEOPEN, FENCECLOSE}

TrailSpace(t) ==
    t \in {OPEN, WORD, TENWORDS, MIGHT, NOTSURE, AUTH, SEEALSO, HEADER,
           HEADING, FENCEOPEN, FENCECLOSE}

\* len(text)
RECURSIVE TextLen(_)
TextLen(a) == IF a = <<>> THEN 0 ELSE TokLen(Head(a)) + TextLen(Tail(a))

\* len(text.split()): the words of the pieces, less one for every two
\* neighbouring pieces that meet without whitespace between them.
RECURSIVE WordCount(_)
WordCount(a) ==
    IF a = <<>> THEN 0
    ELSE IF Len(a) = 1 THEN TokWords(a[1])
    ELSE TokWords(a[1]) + WordCount(Tail(a))
             - (IF TrailSpace(a[1]) \/ LeadSpace(a[2]) THEN 0 ELSE 1)

\* text.lower(), piece by piece (only the pieces that hold a phrase of
\* interest are spelled out; no other piece holds an uncertainty phrase in
\* either case, nor do two neighbouring pieces form one).
Lower(t) == IF t = NOTSURE THEN "not sure " ELSE t

\* any(p in answer_lower for p in uncertainty_phrases)
HasUncertainty(a) ==
    \E i \in 1..Len(a) : Lower(a[i]) \in {"might ", "not sure "}

MinAnswerLen == 50

LongAnswerWords == 100

\* The confidence rules in the documented order: the uncertainty check
\* comes before the word-count check.
FirstMatchingRule(answer, citations) ==
    IF citations = <<>> THEN "low"
    ELSE IF TextLen(answer) < MinAnswerLen THEN "low"
    ELSE IF HasUncertainty(answer) THEN "low"
    ELSE IF WordCount(answer) > LongAnswerWords /\ Len(citations) < 2
         THEN "medium"
    ELSE IF Len(citations) >= 2 THEN "high"
    ELSE IF Len(citations) = 1 THEN "medium"
    ELSE "low"

\* The rules without the check of the length of the answer.
ConfidenceNoLengthRule(answer, citations) ==
    IF citations = <<>> THEN "low"
    ELSE IF WordCount(answer) > LongAnswerWords /\ Len(citations) < 2
         THEN "medium"
    ELSE IF HasUncertainty(answer) THEN "low"
    ELSE IF Len(citations) >= 2 THEN "high"
    ELSE IF Len(citations) = 1 THEN "medium"
    ELSE "low"

\* The rules without the check for an empty citation list.
ConfidenceNoCitationRule(answer, citations) ==
    IF TextLen(answer) < MinAnswerLen THEN "low"
    ELSE IF WordCount(answer) > LongAnswerWords /\ Len(citations) < 2
         THEN "medium"
    ELSE IF HasUncertainty(answer) THEN "low"
    ELSE IF Len(citations) >= 2 THEN "high"
    ELSE IF Len(citations) = 1 THEN "medium"
    ELSE "low"

\* The rules with high only from three citations on.
ConfidenceHighFromThree(answer, citations) ==
    IF citations = <<>> THEN "low"
    ELSE IF TextLen(answer) < MinAnswerLen THEN "low"
    ELSE IF WordCount(answer) > LongAnswerWords /\ Len(citations) < 2
         THEN "medium"
    ELSE IF HasUncertainty(answer) THEN "low"
    ELSE IF Len(citations) >= 3 THEN "high"
    ELSE "medium"

\* calculate_confidence(answer, citations, chunks); chunks is not used.
CalculateConfidence(answer, citations) ==
    IF citations = <<>> THEN "low"
    ELSE IF TextLen(answer) < MinAnswerLen THEN "low"
    ELSE IF WordCount(answer) > LongAnswerWords /\ Len(citations) < 2
         THEN "medium"
    ELSE IF HasUncertainty(answer) THEN "low"
    ELSE IF Len(citations) >= 2 THEN "high"
    ELSE IF Len(citations) = 1 THEN "medium"
    ELSE "low"

FallbackMaxChunks == 3

ExcerptLimit == 500

\* text[:limit]: the pieces that fit whole (the texts used here end a piece
\* exactly at the limit when they are longer).
RECURSIVE TakeChars(_, _)
TakeChars(a, limit) ==
    IF a = <<>> \/ TokLen(Head(a)) > limit THEN <<>>
    ELSE <<Head(a)>> \o TakeChars(Tail(a), limit - TokLen(Head(a)))

\* str(i) for a one-digit i
DigitOf(i) == CASE i = 0 -> "0" [] i = 1 -> "1" [] i = 2 -> "2" [] i = 3 -> "3"

\* for i, chunk in enumerate(chunks[:max_chunks], 1): the excerpt of chunk i
RECURSIVE FallbackExcerpts(_, _)
FallbackExcerpts(chunks, i) ==
    IF i > Min(Len(chunks), FallbackMaxChunks) THEN <<>>
    ELSE <<HEADING, OPEN, DigitOf(i), CLOSE, FENCEOPEN>>
             \o TakeChars(chunks[i].content, ExcerptLimit)
             \o <<FENCECLOSE>>
             \o FallbackExcerpts(chunks, i + 1)

BuildLocalFallbackAnswer(chunks) ==
    IF chunks = <<>> THEN <<NOTFOUND>>
    ELSE <<HEADER>> \o FallbackExcerpts(chunks, 1) \o <<NOTE>>

\* estimate_tokens(text)
EstimateTokens(len) == len \div 4

\* The backend answer is used although reading response.usage raised.
BackendAnswerUsedLenient(key, model, backend) ==
    key /\ model = "openai" /\ backend \in {"ok", "raise_usage"}

\* use_openai holds and no statement of the try block raised.
BackendAnswerUsed(key, model, backend) ==
    key /\ model = "openai" /\ backend = "ok"

\* generate_answer(query, chunks, conversation_history, model).  key: an
\* OpenAI key is configured; backend: how the backend call ends (it returns,
\* or creating the completion, reading response.choices[0] or reading
\* response.usage raises); content: message.content or ""; usage: the usage
\* of the response; promptLen: the length of the prompt built from query,
\* chunks and history.  The cost is in units of 1/100000 dollar:
\* (tokens_estimate / 1000) * 0.01.
GenerateAnswer(chunks, key, model, backend, content, usage, promptLen) ==
    LET used == BackendAnswerUsed(key, model, backend)
        answer == IF used THEN content ELSE BuildLocalFallbackAnswer(chunks)
        tokens == IF used /\ usage.present THEN usage.total
                  ELSE EstimateTokens(promptLen)
        citations == ExtractCitations(answer, chunks)
    IN  [answer |-> answer,
         citations |-> citations,
         confidence |-> CalculateConfidence(answer, citations),
         tokens_estimate |-> tokens,
         cost_estimate |-> IF used THEN tokens ELSE 0]

(***************************************************************************)
(* SpecCite: extract_citations on answers built from text segments and on  *)
(* chunk lists drawn from a pool (a list may repeat a chunk).              *)
(***************************************************************************)
MaxSegments == 3
MaxCiteChunks == 2

Segments ==
    {<<OPEN, "1", CLOSE>>, <<OPEN, "2", CLOSE>>, <<OPEN, "0", CLOSE>>,
     <<OPEN, "0", "1", CLOSE>>, <<OPEN, "1">>, <<"2", CLOSE>>,
     <<OPEN, CLOSE>>, <<"x">>}

RECURSIVE Flatten(_)
Flatten(segs) ==
    IF segs = <<>> THEN <<>> ELSE Head(segs) \o Flatten(Tail(segs))

Answers ==
    {Flatten(segs) : segs \in UNION {[1..n -> Segments] : n \in 0..MaxSegments}}

CiteChunkPool ==
    {[file_path |-> "a.py", start_line |-> 1, end_line |-> 8, clen |-> 150],
     [file_path |-> "b.py", start_line |-> 10, end_line |-> 20, clen |-> 250]}

CiteChunkLists ==
    UNION {[1..n -> CiteChunkPool] : n \in 0..MaxCiteChunks}

CiteInit ==
    /\ citeIn \in [answer : Answers, chunks : CiteChunkLists]
    /\ citeOut = [state |-> "none", citations |-> <<>>]
    /\ genOut = [op |-> "none"]
    /\ ParseIdle
    /\ AuxIdle
    /\ EmbedIdle

\* citations = extract_citations(answer, chunks)
Extract ==
    /\ citeOut.state = "none"
    /\ citeOut' = [state |-> "ok",
                   citations |-> ExtractCitations(citeIn.answer, citeIn.chunks)]
    /\ UNCHANGED <<citeIn, genOut, parseIn, parseOut, embIn, embOut,
                   pipeVars, indexVars, auxVars>>

CiteNext == Extract

InitCite == PipeInit /\ IndexIdle /\ CiteInit

SpecCite == InitCite /\ [][CiteNext]_vars

(***************************************************************************)
(* SpecGen: generate_answer and calculate_confidence on chunk lists,       *)
(* backend behaviours, answer texts and citation lists.                    *)
(***************************************************************************)
MaxGenChunks == 2
MaxConfSegments == 3

Rep(t, n) == [i \in 1..n |-> t]

GenChunk(path, first, last, content) ==
    [file_path |-> path, start_line |-> first, end_line |-> last,
     content |-> content, clen |-> TextLen(content)]

\* Retrieved chunks: plain code; code whose text holds an uncertainty
\* phrase and a marker; code longer than the excerpt limit with a marker
\* behind the limit.
ChunkA == GenChunk("a.py", 1, 8, Rep(TENWORDS, 3))

ChunkB == GenChunk("b.py", 10, 20, <<TENWORDS, MIGHT, OPEN, "2", CLOSE>>)

ChunkC == GenChunk("c.py", 1, 50, Rep(TENWORDS, 10) \o <<OPEN, "1", CLOSE>>)

GenChunkPool == {ChunkA, ChunkB, ChunkC}

\* Code whose text holds the marker of a fourth source.
ChunkD == GenChunk("d.py", 5, 9, <<TENWORDS, OPEN, "4", CLOSE>>)

MaxFallbackChunks == 4

\* Chunk lists of a call that takes the local fallback.
FallbackLists ==
    UNION {[1..n -> GenChunkPool \cup {ChunkD}] : n \in 0..MaxFallbackChunks}

GenChunkLists == UNION {[1..n -> GenChunkPool] : n \in 0..MaxGenChunks}

ExampleAnswer ==
    <<AUTH, OPEN, "1", CLOSE, SEEALSO, OPEN, "2", CLOSE, DOT>>

ExampleChunks == <<ChunkA, ChunkB>>

\* message.content or "" of a backend response.
BackendContents ==
    {<<>>,
     ExampleAnswer,
     <<TENWORDS, OPEN, "1", CLOSE>>,
     Rep(TENWORDS, 10) \o <<WORD, MIGHT, OPEN, "1", CLOSE>>,
     <<TENWORDS, NOTSURE, OPEN, "1", CLOSE, OPEN, "2", CLOSE>>,
     <<TENWORDS, OPEN, "3", CLOSE, OPEN, "0", CLOSE>>}

BackendEnds == {"ok", "raise_create", "raise_choices", "raise_usage"}

Usages == {[present |-> FALSE, total |-> 0], [present |-> TRUE, total |-> 1200]}

PromptLens == {1800, 2001}

\* Answer texts handed to calculate_confidence.
ConfSegments ==
    {<<WORD>>, <<TENWORDS>>, Rep(TENWORDS, 10), <<MIGHT>>, <<NOTSURE>>,
     <<OPEN, "1", CLOSE>>, <<OPEN, "2", CLOSE>>}

ConfAnswers ==
    {Flatten(segs) :
        segs \in UNION {[1..n -> ConfSegments] : n \in 0..MaxConfSegments}}

\* Lengths of the citation lists handed to calculate_confidence.
CitationCounts == 0..3

\* A citation list of n entries.
CitationList(n) == [i \in 1..n |-> Citation(ChunkA)]

GenInit == genOut = [op |-> "none"]

\* await generate_answer(query, chunks, conversation_history, model); the
\* calls are independent of each other, one call is explored per behaviour.
Generate(chunks, key, model, backend, content, usage, promptLen) ==
    /\ genOut.op = "none"
    /\ genOut' = [op |-> "generate",
                  in |-> [chunks |-> chunks, key |-> key, model |-> model,
                          backend |-> backend, content |-> content,
                          usage |-> usage, promptLen |-> promptLen],
                  out |-> GenerateAnswer(chunks, key, model, backend,
                                         content, usage, promptLen)]
    /\ UNCHANGED <<citeIn, citeOut, parseIn, parseOut, embIn, embOut,
                   pipeVars, indexVars, auxVars>>

\* await generate_answer(query, chunks, history, model) without a backend
\* key: the answer is the local fallback answer.
FallbackAnswer(chunks) ==
    /\ genOut.op = "none"
    /\ genOut' = [op |-> "fallback",
                  in |-> [chunks |-> chunks],
                  out |-> GenerateAnswer(chunks, FALSE, "local", "ok", <<>>,
                                         [present |-> FALSE, total |-> 0], 1800)]
    /\ UNCHANGED <<citeIn, citeOut, parseIn, parseOut, embIn, embOut,
                   pipeVars, indexVars, auxVars>>

\* calculate_confidence(answer, citations, chunks)
Confidence(answer, citations) ==
    /\ genOut.op = "none"
    /\ genOut' = [op |-> "confidence",
                  in |-> [answer |-> answer, citations |-> citations],
                  out |-> [answer |-> answer, citations |-> citations,
                           confidence |->
                               CalculateConfidence(answer, citations)]]
    /\ UNCHANGED <<citeIn, citeOut, parseIn, parseOut, embIn, embOut,
                   pipeVars, indexVars, auxVars>>

GenNext ==
    \/ \E chunks \in GenChunkLists, key \in BOOLEAN,
          model \in {"openai", "local"}, backend \in BackendEnds,
          content \in BackendContents, usage \in Usages,
          promptLen \in PromptLens :
            Generate(chunks, key, model, backend, content, usage, promptLen)
    \/ \E answer \in ConfAnswers, n \in CitationCounts :
            Confidence(answer, CitationList(n))
    \/ \E chunks \in FallbackLists : FallbackAnswer(chunks)

InitGen == PipeInit /\ IndexIdle /\ CiteIdle

SpecGen == InitGen /\ [][GenNext]_vars

(***************************************************************************)
(* Chunker: chunk_content (ingestion/parser.py).  A line of a file is one  *)
(* of: "blank" (the empty line), "short" (the text ab), "long" (a text of  *)
(* ten characters), "indent" (ab with two blanks before and after it).     *)
(***************************************************************************)
LineLen(line) ==
    CASE line = "blank" -> 0
      [] line = "short" -> 2
      [] line = "long" -> 10
      [] line = "indent" -> 6

\* Whitespace characters before the first and after the last other
\* character of a line that is not blank.
LinePad(line) == IF line = "indent" THEN 2 ELSE 0

\* len("\n".join(lines))
RECURSIVE JoinedLen(_)
JoinedLen(lines) ==
    IF lines = <<>> THEN 0
    ELSE IF Len(lines) = 1 THEN LineLen(lines[1])
    ELSE LineLen(lines[1]) + 1 + JoinedLen(Tail(lines))

\* len("\n".join(lines).strip()): the text from the first to the last
\* character that is not whitespace.
StrippedLen(lines) ==
    LET text == {i \in 1..Len(lines) : lines[i] # "blank"}
    IN  IF text = {} THEN 0
        ELSE LET first == CHOOSE i \in text : \A j \in text : i <= j
                 last == CHOOSE i \in text : \A j \in text : i >= j
             IN  JoinedLen(SubSeq(lines, first, last))
                     - LinePad(lines[first]) - LinePad(lines[last])

ChunkSizeLines == 50

OverlapLines == 5

MinChunkChars == 10

\* The window end without the clamp to the number of lines.
WindowEndUnclamped(i, n) == i + ChunkSizeLines

\* end = min(i + chunk_size_lines, len(lines))
WindowEnd(i, n) == Min(i + ChunkSizeLines, n)

\* The next window start without the overlap.
NextStartNoOverlap(i) == i + ChunkSizeLines

\* i += chunk_size_lines - overlap_lines, after a kept and after a skipped
\* window alike.
NextStart(i) == i + ChunkSizeLines - OverlapLines

\* The while loop of chunk_content from line offset i on.
RECURSIVE ChunksFrom(_, _)
ChunksFrom(lines, i) ==
    IF i >= Len(lines) THEN <<>>
    ELSE LET end == WindowEnd(i, Len(lines))
             stripped == StrippedLen(SubSeq(lines, i + 1, Min(end, Len(lines))))
             rest == ChunksFrom(lines, NextStart(i))
         IN  IF stripped < MinChunkChars THEN rest
             ELSE <<[start_line |-> i + 1, end_line |-> end,
                     stripped |-> stripped,
                     content |-> SubSeq(lines, i + 1, Min(end, Len(lines)))]>> \o rest

\* chunk_content(content, file_path, language) on content.splitlines()
ChunkContent(lines) == ChunksFrom(lines, 0)

(***************************************************************************)
(* SpecChunk: chunk_content on files that are blank except for text on     *)
(* some of the lines next to the window boundaries.                        *)
(***************************************************************************)
MaxLines == 96

KeyLines == {1, 46, 50, 51, 91, 96}

FileOf(n, textLines, kind) ==
    [i \in 1..n |-> IF i \in textLines THEN kind ELSE "blank"]

Files ==
    {FileOf(n, textLines, kind) :
        n \in 0..MaxLines, textLines \in SUBSET KeyLines,
        kind \in {"short", "long", "indent"}}

ChunkInit ==
    /\ parseIn \in Files
    /\ parseOut = [state |-> "none", chunks |-> <<>>]

\* chunks = chunk_content(content, file_path, language)
Chunk ==
    /\ parseOut.state = "none"
    /\ parseOut' = [state |-> "ok", chunks |-> ChunkContent(parseIn)]
    /\ UNCHANGED <<parseIn, citeIn, citeOut, genOut, embIn, embOut,
                   pipeVars, indexVars, auxVars>>

ChunkNext == Chunk

InitChunk == PipeInit /\ IndexIdle /\ GenIdle /\ EmbedIdle /\ AuxIdle /\ ChunkInit

SpecChunk == InitChunk /\ [][ChunkNext]_vars

(***************************************************************************)
(* Embedding gateway: create_embeddings (indexing/embedder.py).  A vector  *)
(* is represented by its dimension, whether it is all zero, and the        *)
(* position of the chunk text the backend computed it from.                *)
(***************************************************************************)
BatchSize == 32

DefaultDim == 1536

\* The embedding the backend returns for the text at position p.
BackendVec(dim, p) == [dim |-> dim, zero |-> FALSE, of |-> p]

\* [0.0] * dim
ZeroVec(dim) == [dim |-> dim, zero |-> TRUE, of |-> 0]

\* for i in range(0, len(texts), batch_size): the batches from offset i on,
\* all_embeddings being what the earlier batches appended.  fails is the set
\* of batch numbers (i // batch_size) whose backend call raises.
RECURSIVE EmbedFrom(_, _, _, _, _)
EmbedFrom(i, n, dim, fails, all) ==
    IF i >= n THEN all
    ELSE LET size == Min(i + BatchSize, n) - i
             batch ==
                 IF (i \div BatchSize) \notin fails
                 THEN [k \in 1..size |-> BackendVec(dim, i + k)]
                 ELSE LET d == IF all # <<>> THEN all[1].dim ELSE DefaultDim
                      IN  [k \in 1..size |-> ZeroVec(d)]
         IN  EmbedFrom(i + BatchSize, n, dim, fails, all \o batch)

\* create_embeddings(chunks): the embedding given to each of the n chunks.
CreateEmbeddings(n, dim, fails) ==
    IF n = 0 THEN <<>> ELSE EmbedFrom(0, n, dim, fails, <<>>)

(***************************************************************************)
(* SpecEmbed: create_embeddings on up to three batches, each of which may  *)
(* fail.                                                                   *)
(***************************************************************************)
MaxEmbedChunks == 65

BackendDims == {384, 768, 1536}

EmbedInit ==
    /\ embIn \in [n : 0..MaxEmbedChunks, dim : BackendDims,
                  fails : SUBSET (0..(MaxEmbedChunks \div BatchSize))]
    /\ embOut = [state |-> "none", embeddings |-> <<>>]

\* chunks_with_embeddings = await create_embeddings(chunks)
CreateEmbeddingsCall ==
    /\ embOut.state = "none"
    /\ embOut' = [state |-> "ok",
                  embeddings |-> CreateEmbeddings(embIn.n, embIn.dim, embIn.fails)]
    /\ UNCHANGED <<embIn, parseIn, parseOut, citeIn, citeOut, genOut,
                   pipeVars, indexVars, auxVars>>

\* embeddings = np.array([chunk["embedding"] for chunk in chunks], float32)
\* raises for an empty list and for embeddings of different lengths.
ArrayBuildable(embs) ==
    /\ embs # <<>>
    /\ \A i \in 1..Len(embs) : embs[i].dim = embs[1].dim

\* await build_faiss_index(repo_id, chunks_with_embeddings), followed by the
\* save and the READY update when the build returns, and by the handler of
\* the raised exception (status error) when it does not.  The run reaches
\* the embedding stage only with at least one chunk.
BuildAfterEmbed ==
    /\ embOut.state = "ok"
    /\ embIn.n > 0
    /\ embOut' = [embOut EXCEPT !.state =
                      IF ArrayBuildable(embOut.embeddings) THEN "ready" ELSE "error"]
    /\ UNCHANGED <<embIn, parseIn, parseOut, citeIn, citeOut, genOut,
                   pipeVars, indexVars, auxVars>>

EmbedNext == CreateEmbeddingsCall \/ BuildAfterEmbed

InitEmbed == PipeInit /\ IndexIdle /\ GenIdle /\ ParseIdle /\ AuxIdle /\ EmbedInit

SpecEmbed == InitEmbed /\ [][EmbedNext]_vars

(***************************************************************************)
(* SpecSave: save_chunks as the statements of one sqlite transaction, with *)
(* a reader on another connection.  The chunks table has chunk_id as its   *)
(* primary key, so an insert of an id that is already stored raises.       *)
(***************************************************************************)
MaxSaveChunks == 2

MaxSaveCalls == 2

SaveChunkPool == {[id |-> <<1, i>>, words |-> ContentWords(i), vec |-> <<>>] : i \in 1..3}

SaveLists == UNION {[1..n -> SaveChunkPool] : n \in 0..MaxSaveChunks}

saveFrame == <<indexFile, mappingFile, task, runs, qry, lastGood, indexVars,
               citeIn, citeOut, genOut, parseIn, parseOut, embIn, embOut,
               rerankIn, rerankOut, rateVars>>

\* A connection that reads while another connection has an open transaction
\* sees the uncommitted statements of that transaction.
ReaderSeesUncommitted(committed, txn) ==
    IF txn.pc # "idle" THEN txn.view ELSE committed

\* What a SELECT on its own connection returns: the committed rows; the
\* statements of a transaction that another connection has not committed
\* are invisible.
ReaderSees(committed, txn) == committed

\* with get_connection() as conn: cursor.execute("DELETE FROM chunks WHERE
\* repo_id = ?"): the first statement opens the transaction.
SaveBeginDelete(r, chunks) ==
    /\ saveTxn.pc = "idle"
    /\ saveTxn.calls < MaxSaveCalls
    /\ saveTxn' = [pc |-> "insert", repo |-> r, chunks |-> chunks, i |-> 1,
                   view |-> db \ RepoChunks(r), count |-> repos[r].chunk_count,
                   result |-> "none", prev |-> RepoChunks(r),
                   calls |-> saveTxn.calls + 1]
    /\ UNCHANGED <<repos, db, saveRead, saveFrame>>

\* The connection is closed without a commit: the open transaction is
\* rolled back.
RolledBack == [saveTxn EXCEPT !.pc = "idle", !.result = "failed"]

\* cursor.executemany(INSERT ...), one row: raises on a chunk_id that is
\* already stored, and the exception leaves the with block.
SaveInsertRow ==
    /\ saveTxn.pc = "insert"
    /\ saveTxn.i <= Len(saveTxn.chunks)
    /\ LET c == saveTxn.chunks[saveTxn.i]
       IN  IF \E row \in saveTxn.view : row.id = c.id
           THEN saveTxn' = RolledBack
           ELSE saveTxn' = [saveTxn EXCEPT
                               !.view = @ \cup {DbRow(saveTxn.repo, c)},
                               !.i = @ + 1]
    /\ UNCHANGED <<repos, db, saveRead, saveFrame>>

\* UPDATE repositories SET chunk_count = len(chunks) ...
SaveUpdateCount ==
    /\ saveTxn.pc = "insert"
    /\ saveTxn.i > Len(saveTxn.chunks)
    /\ saveTxn' = [saveTxn EXCEPT !.pc = "commit", !.count = Len(saveTxn.chunks)]
    /\ UNCHANGED <<repos, db, saveRead, saveFrame>>

\* conn.commit()
SaveCommit ==
    /\ saveTxn.pc = "commit"
    /\ db' = saveTxn.view
    /\ repos' = [repos EXCEPT ![saveTxn.repo].chunk_count = saveTxn.count]
    /\ saveTxn' = [saveTxn EXCEPT !.pc = "idle", !.result = "ok"]
    /\ UNCHANGED <<saveRead, saveFrame>>

\* A statement or the commit raises (disk full, database locked) or the
\* process stops: finally: conn.close().
SaveAbort ==
    /\ saveTxn.pc \in {"insert", "commit"}
    /\ saveTxn' = RolledBack
    /\ UNCHANGED <<repos, db, saveRead, saveFrame>>

\* get_chunks(repo_id) on a connection of its own.
ReadChunks(r) ==
    /\ saveRead' = [seen |-> TRUE, repo |-> r,
                    rows |-> {row \in ReaderSees(db, saveTxn) : row.repo = r}]
    /\ saveRead' # saveRead
    /\ UNCHANGED <<repos, db, saveTxn, saveFrame>>

SaveNext ==
    \/ \E r \in Repos, chunks \in SaveLists : SaveBeginDelete(r, chunks)
    \/ SaveInsertRow
    \/ SaveUpdateCount
    \/ SaveCommit
    \/ SaveAbort
    \/ \E r \in Repos : ReadChunks(r)

InitSave == PipeInit /\ IndexIdle /\ GenIdle /\ ParseIdle /\ EmbedIdle /\ RerankIdle /\ RateIdle /\ SaveIdle

SpecSave == InitSave /\ [][SaveNext]_vars

(***************************************************************************)
(* SpecRerank: rerank_chunks called twice on one query and chunk list.     *)
(***************************************************************************)
MaxQueryLen == 2

MaxRerankChunks == 3

TextWords == {"token", "Token", "auth", "db"}

\* word.lower()
LowerWord(w) == IF w = "Token" THEN "token" ELSE w

\* set(re.findall(r'\w+', text.lower())), the text given word by word.
WordsOf(text) == {LowerWord(text[i]) : i \in 1..Len(text)}

QueryTexts == UNION {[1..n -> TextWords] : n \in 0..MaxQueryLen}

ChunkTexts == {<<"auth">>, <<"Token", "auth">>, <<"token">>, <<"db">>}

\* Chunk lists; the id of a chunk is its position in the list.
RerankLists ==
    {[i \in 1..Len(texts) |-> [id |-> i, content |-> texts[i], words |-> WordsOf(texts[i])]] :
        texts \in UNION {[1..n -> ChunkTexts] : n \in 0..MaxRerankChunks}}

RerankInit ==
    /\ rerankIn \in [query : QueryTexts, chunks : RerankLists]
    /\ rerankOut = [state |-> "none", first |-> <<>>, second |-> <<>>]

\* reranked = rerank_chunks(query, chunks)
RerankCall ==
    /\ rerankOut.state = "none"
    /\ rerankOut' = [rerankOut EXCEPT
                        !.state = "one",
                        !.first = RerankChunks(WordsOf(rerankIn.query), rerankIn.chunks)]
    /\ UNCHANGED <<rerankIn, saveTxn, saveRead, rateVars, citeIn, citeOut, genOut,
                   parseIn, parseOut, embIn, embOut, pipeVars, indexVars>>

\* The same call once more: the temporary score field of the first call has
\* been removed from the chunks again.
RerankAgain ==
    /\ rerankOut.state = "one"
    /\ rerankOut' = [rerankOut EXCEPT
                        !.state = "two",
                        !.second = RerankChunks(WordsOf(rerankIn.query), rerankIn.chunks)]
    /\ UNCHANGED <<rerankIn, saveTxn, saveRead, rateVars, citeIn, citeOut, genOut,
                   parseIn, parseOut, embIn, embOut, pipeVars, indexVars>>

RerankNext == RerankCall \/ RerankAgain

InitRerank == PipeInit /\ IndexIdle /\ GenIdle /\ ParseIdle /\ EmbedIdle /\ SaveIdle /\ RateIdle /\ RerankInit

SpecRerank == InitRerank /\ [][RerankNext]_vars

(***************************************************************************)
(* SpecRate: rate_limit_middleware (main.py) for two clients, with a clock *)
(* that never goes back.  The limit is the setting rate_limit_per_minute.  *)
(***************************************************************************)
RateLimitPerMinute == 2

MaxClockSteps == 3

MaxRequests == 5

WindowSeconds == 60

\* The amounts by which the clock moves between two requests.
ClockSteps == {1, 59}

\* [req_time for req_time in request_counts[client_ip] if req_time > minute_ago]
RECURSIVE CleanOld(_, _)
CleanOld(times, now) ==
    IF times = <<>> THEN <<>>
    ELSE IF Head(times) > now - WindowSeconds
         THEN <<Head(times)>> \o CleanOld(Tail(times), now)
         ELSE CleanOld(Tail(times), now)

\* The limit check that lets one request more through.
OverLimitOffByOne(n) == n > RateLimitPerMinute

\* if len(request_counts[client_ip]) >= settings.rate_limit_per_minute
OverLimit(n) == n >= RateLimitPerMinute

\* Time passes.
ClockAdvance(d) ==
    /\ rateLog.steps < MaxClockSteps
    /\ rateNow' = rateNow + d
    /\ rateLog' = [rateLog EXCEPT !.steps = @ + 1]
    /\ UNCHANGED <<rateCounts, saveTxn, saveRead, rerankIn, rerankOut,
                   citeIn, citeOut, genOut, parseIn, parseOut, embIn, embOut,
                   pipeVars, indexVars>>

\* rate_limit_middleware(request, call_next) for a request of client c: the
\* list of the client is cleaned; the request is answered with 429, or
\* recorded and forwarded to the handlers (whose status is 200 here).
RateLimitMiddleware(c) ==
    /\ rateLog.n < MaxRequests
    /\ LET cleaned == CleanOld(rateCounts[c], rateNow)
       IN  IF OverLimit(Len(cleaned))
           THEN /\ rateCounts' = [rateCounts EXCEPT ![c] = cleaned]
                /\ rateLog' = [rateLog EXCEPT !.last = [client |-> c, code |-> 429],
                                              !.n = @ + 1]
           ELSE /\ rateCounts' = [rateCounts EXCEPT ![c] = Append(cleaned, rateNow)]
                /\ rateLog' = [rateLog EXCEPT
                                  !.forwarded[c] = Append(@, rateNow),
                                  !.last = [client |-> c, code |-> 200],
                                  !.n = @ + 1]
    /\ UNCHANGED <<rateNow, saveTxn, saveRead, rerankIn, rerankOut,
                   citeIn, citeOut, genOut, parseIn, parseOut, embIn, embOut,
                   pipeVars, indexVars>>

RateNext ==
    \/ \E d \in ClockSteps : ClockAdvance(d)
    \/ \E c \in Clients : RateLimitMiddleware(c)

InitRate == PipeInit /\ IndexIdle /\ CiteIdle

SpecRate == InitRate /\ [][RateNext]_vars

(***************************************************************************)
(* Properties                                                              *)
(***************************************************************************)
\* A marker "[Source n]" occurs in the answer: OPEN, one or more digits
\* whose value is n, CLOSE.
MarkerOccurs(answer, n) ==
    \E i, j \in 1..Len(answer) :
        /\ answer[i] = OPEN
        /\ answer[j] = CLOSE
        /\ j > i + 1
        /\ \A p \in (i + 1)..(j - 1) : answer[p] \in Digits
        /\ ToInt(SubSeq(answer, i + 1, j - 1)) = n

ValidMarkers(answer, chunks) ==
    {n \in 1..Len(chunks) : MarkerOccurs(answer, n)}

\* C1: every citation returned by extract_citations has the file path and
\* line range of chunks[n-1] for some n in 1..len(chunks) whose marker
\* occurs in the answer, and there are no more citations than such n:
\* markers with n = 0 or n > len(chunks) yield none.
C1_CitationsFromRetrievedChunks ==
    citeOut.state = "ok" =>
        /\ \A i \in 1..Len(citeOut.citations) :
              \E n \in ValidMarkers(citeIn.answer, citeIn.chunks) :
                  /\ citeOut.citations[i].file_path = citeIn.chunks[n].file_path
                  /\ citeOut.citations[i].start_line = citeIn.chunks[n].start_line
                  /\ citeOut.citations[i].end_line = citeIn.chunks[n].end_line
        /\ Len(citeOut.citations)
              <= Cardinality(ValidMarkers(citeIn.answer, citeIn.chunks))

\* An answer with a valid marker, a marker 0 and a marker beyond the chunk
\* list, from which exactly one citation was extracted.
C1_Witness ==
    /\ citeOut.state = "ok"
    /\ Len(citeIn.chunks) = 1
    /\ MarkerOccurs(citeIn.answer, 0)
    /\ MarkerOccurs(citeIn.answer, 1)
    /\ MarkerOccurs(citeIn.answer, 2)
    /\ Len(citeOut.citations) = 1

\* C2: a Retrieve that returns has at most topK chunks, each with an id of
\* the mapping the search loaded for the repository.
C2_RetrieveBounded ==
    (qry.pc = "done" /\ qry.outcome = "ok") =>
        /\ Len(qry.result) <= qry.topK
        /\ \A i \in 1..Len(qry.result) : qry.result[i].id \in Range(qry.mapping)

\* A re-ranking Retrieve that hydrated more than topK chunks and returned
\* exactly topK.
C2_Witness ==
    /\ qry.pc = "done"
    /\ qry.outcome = "ok"
    /\ qry.rerank
    /\ Len(qry.chunks) > qry.topK
    /\ Len(qry.result) = qry.topK

\* Index data and mapping data are those of one build: same length, and
\* position i of the mapping is the chunk id of vector i.
Aligned(index, mapping) ==
    /\ Len(index) = Len(mapping)
    /\ \A i \in 1..Len(index) : mapping[i] = index[i].id

\* C3, as claimed: whenever both files of a repository are completely
\* written, they are aligned.
C3_PersistedAligned ==
    \A r \in Repos :
        (indexFile[r].state = "ok" /\ mappingFile[r].state = "ok")
            => Aligned(indexFile[r].data, mappingFile[r].data)

\* search_index has returned its list of chunk ids.
SearchReturned == qry.pc \in {"hydrate", "done"} /\ qry.outcome # "error"

\* C4, as claimed: a search that returns used the index and the mapping of
\* one build.
C4_SearchReadsOneBuild ==
    SearchReturned => Aligned(qry.index, qry.mapping)

\* C5, as claimed: after a run of a repository with an earlier successful
\* run has ended in error, the persisted index, mapping and chunk set are
\* those that were in place when the last successful run set ready.
C5_FailedRunKeepsLastGood ==
    \A t \in Tasks :
        LET r == task[t].repo IN
        (task[t].pc = "done" /\ task[t].outcome = "error" /\ lastGood[r].set)
            => /\ indexFile[r] = lastGood[r].index
               /\ mappingFile[r] = lastGood[r].mapping
               /\ {row.id : row \in RepoChunks(r)} = lastGood[r].chunks

\* C6, as claimed: when a query that passed the status check has hydrated
\* the ids it obtained from the index, every one of them resolved.
C6_QueryReadsOneVersion ==
    (qry.checked /\ SearchReturned /\ qry.i > Len(qry.ids))
        => Len(qry.chunks) = Len(qry.ids)

AllStages == <<"indexing", "clone", "parse", "embed", "build", "save">>

RunEnds(t) == task[t].pc # "done" /\ task'[t].pc = "done"

C8_MismatchFailsSearch ==
    (qry.pc \in {"hydrate", "done"} /\ qry.mapping # <<>>
         /\ Len(qry.index) # Len(qry.mapping))
        => (qry.outcome = "error" /\ qry.ids = <<>>)

\* C9, as claimed: a search returns min(k, n) chunk ids, pairwise distinct,
\* by non-decreasing distance; with k > n every stored id exactly once.
C9_SearchReturnsMinKN ==
    isearch.state = "ok" =>
        LET n == Len(ibuilt.index)
            ids == isearch.ids
            d(id) == L2(ipairs[id].vec, isearch.q)
        IN  /\ Len(ids) = Min(isearch.k, n)
            /\ \A i, j \in 1..Len(ids) : i # j => ids[i] # ids[j]
            /\ \A i \in 1..(Len(ids) - 1) : d(ids[i]) <= d(ids[i + 1])
            /\ isearch.k > n => Range(ids) = {ipairs[p].id : p \in 1..n}

\* C10, as claimed: a search with the vector of a stored pair returns that
\* pair's chunk id first.
C10_RoundTripOwnId ==
    isearch.state = "ok" =>
        \A p \in 1..Len(ipairs) :
            ipairs[p].vec = isearch.q => isearch.ids[1] = ipairs[p].id

\* C10, amended: a search with the vector of a stored pair returns first the
\* chunk id of a stored pair with that vector (the pair's own id when no
\* other stored pair has the same vector).
C10_RoundTripSameVector ==
    isearch.state = "ok" =>
        \A p \in 1..Len(ipairs) :
            ipairs[p].vec = isearch.q =>
                /\ isearch.ids # <<>>
                /\ \E p2 \in 1..Len(ipairs) :
                      /\ ipairs[p2].id = isearch.ids[1]
                      /\ ipairs[p2].vec = isearch.q
                /\ (\A p2 \in 1..Len(ipairs) :
                        ipairs[p2].vec = isearch.q => p2 = p)
                       => isearch.ids[1] = ipairs[p].id

\* A search with the vector of the last of three distinct stored vectors
\* returned that pair's id first.
C10_Witness ==
    /\ isearch.state = "ok"
    /\ Len(ipairs) = 3
    /\ ipairs[3].vec = isearch.q
    /\ ipairs[1].vec # isearch.q
    /\ ipairs[2].vec # isearch.q
    /\ isearch.ids[1] = ipairs[3].id

\* The pair list of a Build call is empty or its vectors differ in dimension.
EmptyOrRagged(pairs) ==
    \/ pairs = <<>>
    \/ \E i, j \in 1..Len(pairs) : Len(pairs[i].vec) # Len(pairs[j].vec)

InvalidCall ==
    \/ icall.op = "build" /\ EmptyOrRagged(icall.pairs)
    \/ icall.op = "search" /\ icall.before.state # "ok"

\* C11: a Build with an empty or ragged pair list, and a Search when the
\* index file or the mapping file is missing, end in error, return nothing
\* and leave the persisted index and mapping as they were before the call.
C11_InvalidCallFailsClean ==
    InvalidCall =>
        /\ icall.outcome = "error"
        /\ icall.result = <<>>
        /\ ibuilt = icall.before

\* A Build with vectors of two dimensions was called on a repository with a
\* built index, which is still in place.
C11_Witness ==
    /\ icall.op = "build"
    /\ Len(icall.pairs) >= 2
    /\ EmptyOrRagged(icall.pairs)
    /\ icall.outcome = "error"
    /\ icall.before.state = "ok"
    /\ ibuilt = icall.before

\* generate_answer did not use a backend answer: no key, another model
\* selected, or the backend call raised.
NoBackendAnswer ==
    /\ genOut.op = "generate"
    /\ (~genOut.in.key \/ genOut.in.model # "openai"
           \/ genOut.in.backend # "ok")

\* C12: when no backend is configured or selected, or the backend call
\* raises, generate_answer returns the local fallback answer for the chunks,
\* the citations and the confidence of that text, and cost estimate 0.
C12_FallbackOnBackendFailure ==
    NoBackendAnswer =>
        LET fallback == BuildLocalFallbackAnswer(genOut.in.chunks)
            citations == ExtractCitations(fallback, genOut.in.chunks)
        IN  /\ genOut.out.answer = fallback
            /\ genOut.out.citations = citations
            /\ genOut.out.confidence = CalculateConfidence(fallback, citations)
            /\ genOut.out.cost_estimate = 0

\* The backend returned an answer with a marker, reading its usage raised,
\* and the result is the fallback answer with two citations.
C12_Witness ==
    /\ genOut.op = "generate"
    /\ genOut.in.key
    /\ genOut.in.model = "openai"
    /\ genOut.in.backend = "raise_usage"
    /\ genOut.in.content = <<TENWORDS, OPEN, "1", CLOSE>>
    /\ Len(genOut.in.chunks) = 2
    /\ genOut.out.answer = BuildLocalFallbackAnswer(genOut.in.chunks)
    /\ Len(genOut.out.citations) = 2
    /\ genOut.out.cost_estimate = 0

\* C13, as claimed: calculate_confidence returns the outcome of the first
\* matching rule in the documented order (uncertainty phrase before the
\* word count).
C13_ConfidenceRuleOrder ==
    genOut.op = "confidence" =>
        genOut.out.confidence
            = FirstMatchingRule(genOut.in.answer, genOut.in.citations)

\* C14: with an empty citation list the confidence is low, from
\* calculate_confidence and from generate_answer alike.
C14_NoCitationsLow ==
    (genOut.op # "none" /\ genOut.out.citations = <<>>)
        => genOut.out.confidence = "low"

\* calculate_confidence was given no citations and an answer of more than
\* 100 words.
C14_Witness ==
    /\ genOut.op = "confidence"
    /\ genOut.in.citations = <<>>
    /\ WordCount(genOut.in.answer) > LongAnswerWords
    /\ genOut.out.confidence = "low"

\* The backend returned the example answer for the example chunks.
ExampleCall ==
    /\ genOut.op = "generate"
    /\ ~NoBackendAnswer
    /\ genOut.in.content = ExampleAnswer
    /\ genOut.in.chunks = ExampleChunks

ExampleCitations ==
    /\ Len(genOut.out.citations) = 2
    /\ genOut.out.citations[1].file_path = "a.py"
    /\ genOut.out.citations[1].start_line = 1
    /\ genOut.out.citations[1].end_line = 8
    /\ genOut.out.citations[2].file_path = "b.py"
    /\ genOut.out.citations[2].start_line = 10
    /\ genOut.out.citations[2].end_line = 20

\* C15, as claimed: the example yields the citations (a.py, 1, 8) then
\* (b.py, 10, 20) and the confidence high.
C15_ExampleHigh ==
    ExampleCall => (ExampleCitations /\ genOut.out.confidence = "high")

\* C15, amended: the example yields the citations (a.py, 1, 8) then
\* (b.py, 10, 20) and the confidence low, the answer being 43 characters
\* long.
C15_ExampleLow ==
    ExampleCall =>
        /\ TextLen(genOut.out.answer) = 43
        /\ ExampleCitations
        /\ genOut.out.confidence = "low"

C15_Witness == ExampleCall /\ ExampleCitations

\* C16: for an answer of at least 50 characters without an uncertainty
\* phrase, one citation gives medium and two or more give high.
C16_MediumAndHigh ==
    (/\ genOut.op = "confidence"
     /\ TextLen(genOut.in.answer) >= MinAnswerLen
     /\ ~HasUncertainty(genOut.in.answer))
        => /\ Len(genOut.in.citations) = 1 => genOut.out.confidence = "medium"
           /\ Len(genOut.in.citations) >= 2 => genOut.out.confidence = "high"

\* Two citations and an answer of more than 100 words without an
\* uncertainty phrase: high.
C16_Witness ==
    /\ genOut.op = "confidence"
    /\ Len(genOut.in.citations) = 2
    /\ WordCount(genOut.in.answer) > LongAnswerWords
    /\ ~HasUncertainty(genOut.in.answer)
    /\ genOut.out.confidence = "high"

\* C17: extract_citations returns one citation per distinct valid source
\* number of the answer, in ascending order of the source number; the list
\* is a function of that set of numbers and the chunks.
C17_OnePerSourceAscending ==
    citeOut.state = "ok" =>
        LET valid == ValidMarkers(citeIn.answer, citeIn.chunks)
            rank(n) == Cardinality({m \in valid : m <= n})
        IN  /\ Len(citeOut.citations) = Cardinality(valid)
            /\ \A n \in valid :
                  citeOut.citations[rank(n)] = Citation(citeIn.chunks[n])

\* The markers 2, 1, 2 in this order over two different chunks gave the
\* citation of chunk 1, then that of chunk 2.
C17_Witness ==
    /\ citeOut.state = "ok"
    /\ citeIn.answer = <<OPEN, "2", CLOSE, OPEN, "1", CLOSE, OPEN, "2", CLOSE>>
    /\ Len(citeIn.chunks) = 2
    /\ citeIn.chunks[1] # citeIn.chunks[2]
    /\ citeOut.citations
           = <<Citation(citeIn.chunks[1]), Citation(citeIn.chunks[2])>>

\* The line offsets at which chunk_content opens a window.
WindowStarts(n) ==
    {i \in 0..(n - 1) : i % (ChunkSizeLines - OverlapLines) = 0}

\* A window that reaches the end of the file was kept.
EndWindowKept(lines) ==
    \E i \in WindowStarts(Len(lines)) :
        /\ i + ChunkSizeLines >= Len(lines)
        /\ StrippedLen(SubSeq(lines, i + 1, Len(lines))) >= MinChunkChars

\* C18: the chunks of a file have non-decreasing start_line, start_line >= 1
\* and end_line >= start_line, and the last chunk ends at the last line of
\* the file unless every window reaching the end of the file was skipped.
C18_ChunksCoverInOrder ==
    parseOut.state = "ok" =>
        LET cs == parseOut.chunks
        IN  /\ \A i \in 1..(Len(cs) - 1) :
                  cs[i].start_line <= cs[i + 1].start_line
            /\ \A i \in 1..Len(cs) :
                  cs[i].start_line >= 1 /\ cs[i].end_line >= cs[i].start_line
            /\ EndWindowKept(parseIn) =>
                  (cs # <<>> /\ cs[Len(cs)].end_line = Len(parseIn))

\* A file of 50 lines: the window of lines 1-50 was kept, the window of
\* lines 46-50 was skipped, and the only chunk ends at line 50.
C18_Witness ==
    /\ parseOut.state = "ok"
    /\ Len(parseIn) = 50
    /\ StrippedLen(SubSeq(parseIn, 46, 50)) < MinChunkChars
    /\ Len(parseOut.chunks) = 1
    /\ parseOut.chunks[1].end_line = 50

\* What is persisted for a repository: its row (status, error message),
\* its index and mapping files and its chunk rows.
Persisted(r) == <<repos[r], indexFile[r], mappingFile[r], RepoChunks(r)>>

PersistedNext(r) ==
    <<repos'[r], indexFile'[r], mappingFile'[r],
      {row \in db' : row.repo = r}>>

\* C19: a step of an indexing run for a repository changes nothing that is
\* persisted for any other repository.
C19_RunsAreIsolated ==
    [][\A t \in Tasks :
          task'[t] # task[t] =>
              \A r \in Repos \ {task'[t].repo} :
                  PersistedNext(r) = Persisted(r)]_vars

\* The run of r1 ended in error after it wrote its index file, while r2
\* is ready with its own index, mapping and chunk rows.
C19_Witness ==
    /\ task["t1"].pc = "done"
    /\ task["t1"].outcome = "error"
    /\ repos["r1"].status = "error"
    /\ indexFile["r1"].state = "ok"
    /\ repos["r2"].status = "ready"
    /\ lastGood["r2"].set
    /\ indexFile["r2"] = lastGood["r2"].index
    /\ mappingFile["r2"] = lastGood["r2"].mapping
    /\ {row.id : row \in RepoChunks("r2")} = lastGood["r2"].chunks
    /\ RepoChunks("r2") # {}

\* C20, as claimed: create_embeddings returns one embedding per chunk in
\* input order; a chunk of a succeeded batch has the backend vector of its
\* position, a chunk of a failed batch an all-zero vector of the dimension
\* the backend returned in an earlier batch, or of dimension 1536 when no
\* earlier batch succeeded.
C20_BatchFailuresGiveZeroVectors ==
    embOut.state = "ok" =>
        /\ Len(embOut.embeddings) = embIn.n
        /\ \A p \in 1..embIn.n :
              LET b == (p - 1) \div BatchSize
                  e == embOut.embeddings[p]
              IN  IF b \notin embIn.fails
                  THEN e = BackendVec(embIn.dim, p)
                  ELSE /\ e.zero
                       /\ e.dim = IF \E b2 \in 0..(b - 1) : b2 \notin embIn.fails
                                  THEN embIn.dim
                                  ELSE DefaultDim

\* C21: in a run where any subset of embedding batches fails and every other
\* stage succeeds, the vectors handed to the index build share one dimension,
\* no chunk is discarded and the run ends in ready, never in error.
C21_FailedBatchesStillReady ==
    embOut.state \in {"ready", "error"} =>
        /\ Len(embOut.embeddings) = embIn.n
        /\ \A i, j \in 1..Len(embOut.embeddings) :
              embOut.embeddings[i].dim = embOut.embeddings[j].dim
        /\ embOut.state = "ready"

\* C22: a run whose parse stage yields zero chunks ends in error with the
\* message of the empty-parse exception, never in ready; no embedding, build
\* or save stage is executed without a chunk; and up to that end the run
\* leaves the index file, the mapping file and the stored chunks untouched.
C22_EmptyParseAborts ==
    /\ [](\A t \in Tasks :
            task[t].chunks = <<>> =>
                /\ Range(task[t].stages) \subseteq {"indexing", "clone"}
                /\ task[t].outcome # "ready")
    /\ [][\A t \in Tasks :
            (task[t].pc = "parse" /\ task'[t].pc = "done") =>
                /\ task'[t].outcome = "error"
                /\ task'[t].stages = <<"indexing", "clone">>
                /\ repos'[task[t].repo].status = "error"
                /\ repos'[task[t].repo].error = "No code chunks extracted from repository"]_vars
    /\ [][\A t \in Tasks :
            (task[t].pc \in {"start", "clone", "parse"} /\ task'[t] # task[t]) =>
                /\ indexFile' = indexFile
                /\ mappingFile' = mappingFile
                /\ db' = db
                /\ repos'[task[t].repo].chunk_count = repos[task[t].repo].chunk_count]_vars

\* A run that ended at the empty parse after an earlier run had ended in
\* ready: the files and chunks of the earlier run are still in place.
C22_Witness ==
    /\ task["t1"].pc = "done"
    /\ task["t1"].err = "No code chunks extracted from repository"
    /\ task["t1"].chunks = <<>>
    /\ repos["r1"].status = "error"
    /\ lastGood["r1"].set
    /\ Snapshot("r1") = lastGood["r1"]
    /\ RepoChunks("r1") # {}

SaveCommitted == saveTxn.pc = "commit" /\ saveTxn'.result = "ok" /\ saveTxn'.pc = "idle"

\* C23: save_chunks is one transaction.  The committing step leaves exactly
\* the rows of the given list stored for the repository, with chunk_count
\* the length of the list, and the rows of other repositories as they were;
\* a call that fails before the commit changes neither the stored chunks nor
\* the counts; the stored chunks change at no other step; and a reader sees
\* the committed rows only, never the rows of the open transaction.
C23_SaveIsOneTransaction ==
    /\ [][SaveCommitted =>
            LET r == saveTxn.repo
                S == saveTxn.chunks
            IN  /\ {row \in db' : row.repo = r} = {DbRow(r, S[i]) : i \in 1..Len(S)}
                /\ Cardinality({row \in db' : row.repo = r}) = Len(S)
                /\ repos'[r].chunk_count = Len(S)
                /\ {row \in db' : row.repo # r} = {row \in db : row.repo # r}]_vars
    /\ [][(saveTxn.pc # "idle" /\ saveTxn'.result = "failed") =>
            (db' = db /\ repos' = repos)]_vars
    /\ [][(db' # db \/ repos' # repos) => SaveCommitted]_vars
    /\ [][saveRead' # saveRead =>
            saveRead'.rows = RepoChunks(saveRead'.repo)]_vars

\* A second save for the same repository has committed two chunks in place
\* of an earlier, different set, which a reader had seen in full.
C23_Witness ==
    /\ saveTxn.result = "ok"
    /\ saveTxn.pc = "idle"
    /\ Len(saveTxn.chunks) = 2
    /\ saveTxn.prev # {}
    /\ saveTxn.prev \cap RepoChunks(saveTxn.repo) = {}
    /\ Cardinality(RepoChunks(saveTxn.repo)) = 2
    /\ repos[saveTxn.repo].chunk_count = 2
    /\ saveRead.seen
    /\ saveRead.repo = saveTxn.repo
    /\ saveRead.rows = saveTxn.prev

Overlap(c) == Cardinality(WordsOf(rerankIn.query) \cap WordsOf(c.content))

\* C25: rerank_chunks returns a permutation of its input, in non-increasing
\* keyword score (all scores are 0 for a query without words), chunks of
\* equal score in their input order, and a second call on the same input
\* returns the same order.
C25_RerankStablePermutation ==
    rerankOut.state # "none" =>
        LET in == rerankIn.chunks
            out == rerankOut.first
            score(c) == IF WordsOf(rerankIn.query) = {} THEN 0 ELSE Overlap(c)
        IN  /\ Len(out) = Len(in)
            /\ \A i \in 1..Len(in) : \E j \in 1..Len(out) : out[j] = in[i]
            /\ \A i, j \in 1..Len(out) :
                  i < j => \/ score(out[i]) > score(out[j])
                           \/ /\ score(out[i]) = score(out[j])
                              /\ out[i].id < out[j].id
            /\ rerankOut.state = "two" => rerankOut.second = rerankOut.first

\* Three chunks, the last one with the highest score and the first two with
\* equal, positive scores: the last moved to the front, the tie kept its order.
C25_Witness ==
    /\ rerankOut.state = "two"
    /\ Len(rerankIn.chunks) = 3
    /\ Cardinality(WordsOf(rerankIn.query)) = 2
    /\ Overlap(rerankIn.chunks[3]) = 2
    /\ Overlap(rerankIn.chunks[1]) = 1
    /\ Overlap(rerankIn.chunks[2]) = 1
    /\ rerankIn.chunks[1].content # rerankIn.chunks[2].content
    /\ rerankOut.first = <<rerankIn.chunks[3], rerankIn.chunks[1], rerankIn.chunks[2]>>

\* The chunks hydrated so far are the rows of a subsequence of the ids
\* already looked up, in the order of the ids.
HydratedInOrder ==
    \E f \in [1..Len(qry.chunks) -> 1..Len(qry.ids)] :
        /\ \A j \in 1..Len(qry.chunks) :
              /\ f[j] < qry.i
              /\ qry.chunks[j].id = qry.ids[f[j]]
        /\ \A j \in 1..(Len(qry.chunks) - 1) : f[j] < f[j + 1]

\* C26: the lookup of an id that does not resolve in the chunk store adds
\* nothing and raises nothing, the hydration goes on with the next id; an id
\* that resolves appends its row; so the hydrated chunks keep the order in
\* which the index returned their ids.
C26_HydrationDropsSilently ==
    /\ [][(qry.pc = "hydrate" /\ qry.i <= Len(qry.ids) /\ qry' # qry) =>
            /\ qry'.pc = "hydrate"
            /\ qry'.outcome # "error"
            /\ qry'.i = qry.i + 1
            /\ qry'.ids = qry.ids
            /\ IF \E row \in db : row.id = qry.ids[qry.i]
               THEN /\ Len(qry'.chunks) = Len(qry.chunks) + 1
                    /\ SubSeq(qry'.chunks, 1, Len(qry.chunks)) = qry.chunks
                    /\ qry'.chunks[Len(qry'.chunks)].id = qry.ids[qry.i]
               ELSE qry'.chunks = qry.chunks]_vars
    /\ [](SearchReturned => HydratedInOrder)

\* A Retrieve that returned although the first of its two ids did not
\* resolve: the hydrated list holds the chunk of the second id only.
C26_Witness ==
    /\ qry.pc = "done"
    /\ qry.outcome = "ok"
    /\ Len(qry.ids) = 2
    /\ Len(qry.chunks) = 1
    /\ qry.chunks[1].id = qry.ids[2]
    /\ qry.ids[1] # qry.ids[2]

\* The first lines of the windows that chunk_content keeps for a file: every
\* 45th line from line 1 on whose window has a trimmed text of at least ten
\* characters.
KeptStarts(lines) ==
    {st \in 1..Len(lines) :
        /\ (st - 1) % 45 = 0
        /\ StrippedLen(SubSeq(lines, st, Min(st + 49, Len(lines)))) >= 10}

\* C27: the chunks of a text of L lines are, in order, the windows starting
\* at lines 1, 46, 91, ... up to L, each ending at min(start + 49, L) and
\* holding these lines as they are, without the windows whose trimmed text
\* has fewer than 10 characters; a skipped window moves the start on by 45
\* all the same; a text without lines gives no chunk.
C27_WindowsEvery45Lines ==
    parseOut.state = "ok" =>
        LET cs == parseOut.chunks
            L == Len(parseIn)
        IN  /\ Len(cs) = Cardinality(KeptStarts(parseIn))
            /\ \A i \in 1..Len(cs) :
                  /\ cs[i].start_line \in KeptStarts(parseIn)
                  /\ cs[i].end_line = Min(cs[i].start_line + 49, L)
                  /\ cs[i].content = SubSeq(parseIn, cs[i].start_line, cs[i].end_line)
            /\ \A i \in 1..(Len(cs) - 1) : cs[i].start_line < cs[i + 1].start_line
            /\ L = 0 => cs = <<>>

\* A file of 96 lines with text on its first and its last line only: the
\* window of lines 46-95 was skipped, the windows at lines 1 and 91 were kept.
C27_Witness ==
    /\ parseOut.state = "ok"
    /\ Len(parseIn) = 96
    /\ KeptStarts(parseIn) = {1, 91}
    /\ Len(parseOut.chunks) = 2
    /\ parseOut.chunks[2].start_line = 91
    /\ parseOut.chunks[2].end_line = 96

\* C28: the citations extracted from the local fallback answer of a list of
\* n >= 1 chunks, whatever their content, are the first min(3, n) chunks in
\* order and no other chunk; for an empty list there is no citation and the
\* confidence is low.
C28_FallbackCitesFirstThree ==
    genOut.op = "fallback" =>
        LET chunks == genOut.in.chunks
            n == Len(chunks)
        IN  IF n = 0
            THEN genOut.out.citations = <<>> /\ genOut.out.confidence = "low"
            ELSE genOut.out.citations = [i \in 1..Min(3, n) |-> Citation(chunks[i])]

\* C29: whenever the status of a repository is ready, under any number of
\* runs for it, one after the other or overlapping, its index and mapping
\* files exist, the chunk ids of the mapping are the chunk ids stored for the
\* repository, chunk_count is their number, the completion timestamp is set
\* and the error message is empty.
C29_ReadyMeansConsistent ==
    \A r \in Repos :
        repos[r].status = "ready" =>
            LET stored == {row.id : row \in RepoChunks(r)}
            IN  /\ indexFile[r].state = "ok"
                /\ mappingFile[r].state = "ok"
                /\ Range(mappingFile[r].data) = stored
                /\ repos[r].chunk_count = Cardinality(stored)
                /\ repos[r].indexed
                /\ repos[r].error = ""

\* The number of requests of client c that were forwarded in the 60 seconds
\* that end at time t (the window after t - 60 up to and including t).
ForwardedInWindow(c, t) ==
    Cardinality({i \in 1..Len(rateLog.forwarded[c]) :
                    /\ rateLog.forwarded[c][i] > t - 60
                    /\ rateLog.forwarded[c][i] <= t})

\* C30: of every client at most rate_limit_per_minute requests are forwarded
\* within any window of 60 seconds; a request answered with 429 is not
\* recorded and takes nothing from the allowance of the client; and a
\* request of one client leaves the record of every other client as it was.
C30_RateLimitPerClient ==
    /\ [](\A c \in Clients, t \in 0..rateNow :
            ForwardedInWindow(c, t) <= RateLimitPerMinute)
    /\ [][\A c \in Clients :
            (rateLog'.n = rateLog.n + 1 /\ rateLog'.last = [client |-> c, code |-> 429]) =>
                /\ rateLog'.forwarded = rateLog.forwarded
                /\ Len(rateCounts'[c]) <= Len(rateCounts[c])
                /\ \A i \in 1..Len(rateCounts'[c]) :
                      \E j \in 1..Len(rateCounts[c]) : rateCounts'[c][i] = rateCounts[c][j]]_vars
    /\ [][\A c \in Clients :
            (rateLog'.n = rateLog.n + 1 /\ rateLog'.last.client = c) =>
                \A d \in Clients \ {c} :
                    /\ rateCounts'[d] = rateCounts[d]
                    /\ rateLog'.forwarded[d] = rateLog.forwarded[d]]_vars
    /\ [][\A c \in Clients :
            (rateLog'.n = rateLog.n + 1 /\ rateLog'.last = [client |-> c, code |-> 200]) =>
                ForwardedInWindow(c, rateNow) < RateLimitPerMinute]_vars

\* Client c1 had two requests forwarded and a third one rejected at one
\* time, had a request forwarded again 60 seconds later, and client c2 had
\* a request forwarded in between.
C30_Witness ==
    /\ Len(rateLog.forwarded["c1"]) = 3
    /\ rateLog.forwarded["c1"][1] = rateLog.forwarded["c1"][2]
    /\ rateLog.forwarded["c1"][3] = rateLog.forwarded["c1"][1] + 60
    /\ Len(rateLog.forwarded["c2"]) = 1
    /\ rateLog.n = 5

====
